---------------------------- MODULE Spec2Model ----------------------------
(***************************************************************************)
(* A model of the meta-ai execution engine (src/src/core/runtime.rs):      *)
(* the JSON working document, RuntimeState::get / RuntimeState::set,        *)
(* Runtime::exec_op and Runtime::execute, stepped one program step at a    *)
(* time; of the validation loop of Orchestrator::build_application         *)
(* (src/src/orchestrator.rs) with AgentSwarm::fix_program; and of the      *)
(* retry loops of GeminiClient::generate (src/src/ai/client.rs) and        *)
(* AgentSwarm::write_logic (src/src/ai/agents.rs).                         *)
(*                                                                         *)
(* Representation.                                                         *)
(*  - A serde_json Value is a tagged record (Null, Bool, Num, Str, Arr,     *)
(*    Obj).  A number keeps whether it is stored as an integer (N::PosInt / *)
(*    N::NegInt) or as a float (N::Float): serde_json compares the two as   *)
(*    different values.  Its magnitude is an exact fraction n/d.            *)
(*  - A path string is the sequence of its tokens: the separator "/" and   *)
(*    the maximal runs of other characters between separators.  "" is      *)
(*    <<>>, "/a/b" is <<"/","a","/","b">>, "a/b" is <<"a","/","b">>.        *)
(*    The escapes ~0 and ~1 of JSON pointers are modelled for the tokens   *)
(*    of EscapedTokens.                                                    *)
(*  - An f64 is an exact fraction or one of the two infinities.            *)
(***************************************************************************)
EXTENDS Integers, Sequences, FiniteSets, TLC

VARIABLES
    program,    \* the AppProgram handed to execute; in build_application
                \* the variable `program`, assigned again by a repair
    inputs,     \* the inputs Value handed to execute
    data,       \* RuntimeState.data of this execution
    pc,         \* index (1-based) of the next step of program.steps
    result,     \* what execute has returned so far, if anything
    log,        \* history: one record per step evaluated, in order
    calls,      \* the execute calls that run side by side on the program,
                \* each with its own inputs, RuntimeState, position and return
    orch,       \* the locals of build_application's validation loop, with
                \* the history of its runs and of its calls of fix_program
    client      \* the locals of write_logic and of the generate call it
                \* waits for, with the history of attempts and sleeps

vars == <<program, inputs, data, pc, result, log, calls, orch, client>>

---------------------------------------------------------------------------
(* serde_json::Value *)

Null == [t |-> "null"]

Bool(b) == [t |-> "bool", b |-> b]

\* A string value.  Where strings are only stored and compared, s is the
\* string; the specification of FormatString, which looks into them, gives s
\* as the sequence of its characters.
Str(s) == [t |-> "str", s |-> s]

Arr(seq) == [t |-> "arr", a |-> seq]

Obj(map) == [t |-> "obj", m |-> map]

EmptyMap == [k \in {} |-> Null]

\* Option<T>
None == [some |-> FALSE]

Some(v) == [some |-> TRUE, v |-> v]

\* Result<T, MetaError>: the error keeps its kind and the path it names.
Ok(v) == [ok |-> TRUE, v |-> v]

Err(kind, path) == [ok |-> FALSE, kind |-> kind, path |-> path]

---------------------------------------------------------------------------
(* f64 arithmetic, exact on the fractions the model reaches *)

Abs(i) == IF i < 0 THEN -i ELSE i

RECURSIVE Gcd(_, _)
Gcd(a, b) == IF b = 0 THEN a ELSE Gcd(b, a % b)

\* A finite f64 in lowest terms with a positive denominator.
Frac(n, d) ==
    LET g == Gcd(Abs(n), Abs(d))
        s == IF d < 0 THEN -1 ELSE 1
    IN  [k |-> "fin", n |-> (s * n) \div g, d |-> (s * d) \div g]

F(i) == [k |-> "fin", n |-> i, d |-> 1]

PosInf == [k |-> "pinf"]

NegInf == [k |-> "ninf"]

FAdd(x, y) == Frac(x.n * y.d + y.n * x.d, x.d * y.d)

FSub(x, y) == Frac(x.n * y.d - y.n * x.d, x.d * y.d)

FMul(x, y) == Frac(x.n * y.n, x.d * y.d)

\* x / y for y # 0
FDiv(x, y) == Frac(x.n * y.d, x.d * y.n)

FIsZero(x) == x.k = "fin" /\ x.n = 0

FLess(x, y) ==
    CASE x.k = "pinf" -> FALSE
      [] y.k = "ninf" -> FALSE
      [] x.k = "ninf" -> TRUE
      [] y.k = "pinf" -> TRUE
      [] OTHER -> x.n * y.d < y.n * x.d

\* A JSON integer literal, as serde_json parses "10" (N::PosInt / N::NegInt).
Int64(i) == [t |-> "num", f |-> FALSE, n |-> i, d |-> 1]

\* json!(x) for an f64 x: Number::from_f64 gives no number for a non-finite
\* value and the macro then yields Value::Null.
JsonF64(x) ==
    IF x.k = "fin" THEN [t |-> "num", f |-> TRUE, n |-> x.n, d |-> x.d]
    ELSE Null

\* Value::as_f64
AsF64(v) == IF v.t = "num" THEN Some([k |-> "fin", n |-> v.n, d |-> v.d]) ELSE None

---------------------------------------------------------------------------
(* Path strings *)

Slash == "/"

\* str::starts_with('/')
StartsWithSlash(path) == Len(path) > 0 /\ path[1] = Slash

\* str::split('/'): the parts between separators, empty parts included.
RECURSIVE Split(_)
Split(path) ==
    IF path = <<>> THEN <<"">>
    ELSE LET rest == Split(Tail(path))
         IN  IF Head(path) = Slash THEN <<"">> \o rest
             ELSE <<Head(path)>> \o Tail(rest)

\* serde_json's parse_index on the index tokens the model uses: decimal
\* digits without sign or leading zero.
IndexTokens == [i \in {"0", "1", "2", "3"} |->
                  CASE i = "0" -> 0 [] i = "1" -> 1 [] i = "2" -> 2 [] OTHER -> 3]

parse_index(tok) ==
    IF tok \in DOMAIN IndexTokens THEN Some(IndexTokens[tok]) ELSE None

\* The tokens of the model that hold an escape, with the key they stand for:
\* "~1" is '/' (and "~0" is '~').
EscapedTokens == [t \in {"temp~1a"} |-> "temp/a"]

\* x.replace("~1", "/").replace("~0", "~")
Unescape(tok) == IF tok \in DOMAIN EscapedTokens THEN EscapedTokens[tok] ELSE tok

\* The reference tokens of a pointer: split('/').skip(1), each unescaped.
Tokens(path) == [i \in 1..(Len(Split(path)) - 1) |-> Unescape(Split(path)[i + 1])]

\* Value::pointer's walk over the reference tokens.
RECURSIVE Walk(_, _)
Walk(v, toks) ==
    IF toks = <<>> THEN Some(v)
    ELSE LET tok == Head(toks) IN
         CASE v.t = "obj" ->
                IF tok \in DOMAIN v.m THEN Walk(v.m[tok], Tail(toks)) ELSE None
           [] v.t = "arr" ->
                LET i == parse_index(tok) IN
                IF i.some /\ i.v < Len(v.a) THEN Walk(v.a[i.v + 1], Tail(toks))
                ELSE None
           [] OTHER -> None

\* Value::pointer
Pointer(v, path) ==
    IF path = <<>> THEN Some(v)
    ELSE IF ~StartsWithSlash(path) THEN None
    ELSE Walk(v, Tokens(path))

\* The document with the value at the (resolving) reference tokens replaced:
\* the assignment through Value::pointer_mut.
RECURSIVE Replace(_, _, _)
Replace(v, toks, value) ==
    IF toks = <<>> THEN value
    ELSE LET tok == Head(toks) IN
         IF v.t = "obj"
         THEN Obj([v.m EXCEPT ![tok] = Replace(v.m[tok], Tail(toks), value)])
         ELSE LET i == parse_index(tok).v + 1
              IN  Arr([v.a EXCEPT ![i] = Replace(v.a[i], Tail(toks), value)])

\* Map::insert
Insert(map, key, value) == (key :> value) @@ map


---------------------------------------------------------------------------
(* RuntimeState *)

\* RuntimeState::new
RuntimeState_new(inp) == Obj([k \in {"inputs", "temp"} |->
                                 IF k = "inputs" THEN inp ELSE Obj(EmptyMap)])

\* format!("/inputs{}", path)
InputPath(path) == <<Slash, "inputs">> \o path

\* RuntimeState::get.  The error message's list of available keys is left out.
\* exact is the lookup of the path itself, fallback the lookup under /inputs
\* (made only for a path that starts with '/').
GetResultNoFallback(exact, fallback, path) ==
    IF exact.some THEN Ok(exact.v)
    ELSE Err("PointerNotFound", path)

GetResultFallbackFirst(exact, fallback, path) ==
    IF fallback.some THEN Ok(fallback.v)
    ELSE IF exact.some THEN Ok(exact.v)
    ELSE Err("PointerNotFound", path)

GetResult(exact, fallback, path) ==
    IF exact.some THEN Ok(exact.v)
    ELSE IF fallback.some THEN Ok(fallback.v)
    ELSE Err("PointerNotFound", path)

get(doc, path) ==
    GetResult(Pointer(doc, path),
              IF StartsWithSlash(path) THEN Pointer(doc, InputPath(path)) ELSE None,
              path)

\* The "/key" arm of RuntimeState::set: Some(document) when it returns Ok.
SetRootKey(doc, parts, value) ==
    IF Len(parts) = 2 /\ parts[2] # "" /\ doc.t = "obj"
    THEN Some(Obj(Insert(doc.m, parts[2], value)))
    ELSE None

\* The root map once the section exists: root.insert(section, json!({}))
\* when the key is missing.
WithSection(root, section) ==
    IF section \in DOMAIN root THEN root
    ELSE Insert(root, section, Obj(EmptyMap))

\* (mutant) the section is left with the new key alone
InsertInSectionAlone(root, section, key, value) ==
    IF root[section].t = "obj"
    THEN Some(Obj([root EXCEPT ![section] = Obj(Insert(EmptyMap, key, value))]))
    ELSE None

\* (mutant) a key of empty name is not inserted
InsertInSectionNamedKey(root, section, key, value) ==
    IF root[section].t = "obj" /\ key # ""
    THEN Some(Obj([root EXCEPT ![section] =
                      Obj(Insert(root[section].m, key, value))]))
    ELSE None

\* section_obj.insert(key, value), when the section is an object
InsertInSection(root, section, key, value) ==
    IF root[section].t = "obj"
    THEN Some(Obj([root EXCEPT ![section] =
                      Obj(Insert(root[section].m, key, value))]))
    ELSE None

\* (mutant) the section is not created when it is missing
SetSectionKeyExisting(doc, parts, value) ==
    IF Len(parts) = 3 /\ doc.t = "obj" /\ parts[2] \in DOMAIN doc.m
    THEN InsertInSection(doc.m, parts[2], parts[3], value)
    ELSE None

\* The "/section/key" arm of RuntimeState::set.
SetSectionKey(doc, parts, value) ==
    IF Len(parts) = 3 /\ doc.t = "obj"
    THEN InsertInSection(WithSection(doc.m, parts[2]), parts[2], parts[3], value)
    ELSE None

\* The two arms in order; the error when neither returns.
SetNew(root, sect, path) ==
    IF root.some THEN Ok(root.v)
    ELSE IF sect.some THEN Ok(sect.v)
    ELSE Err("CannotSetPath", path)

\* (mutant) a new key is inserted under any parent that resolves
SetUnresolvedAnyDepth(doc, parts, value, path) ==
    IF Len(parts) = 4 /\ Walk(doc, SubSeq(parts, 2, 3)).some
          /\ Walk(doc, SubSeq(parts, 2, 3)).v.t = "obj"
    THEN Ok(Replace(doc, SubSeq(parts, 2, 3),
                    Obj(Insert(Walk(doc, SubSeq(parts, 2, 3)).v.m, parts[4], value))))
    ELSE SetNew(SetRootKey(doc, parts, value), SetSectionKey(doc, parts, value), path)

\* The else branch of RuntimeState::set, on parts = path.split('/')
SetUnresolved(doc, parts, value, path) ==
    SetNew(SetRootKey(doc, parts, value), SetSectionKey(doc, parts, value), path)

\* RuntimeState::set: Ok(the document afterwards) or the error.
set(doc, path, value) ==
    IF Pointer(doc, path).some
    THEN Ok(IF path = <<>> THEN value ELSE Replace(doc, Tokens(path), value))
    ELSE SetUnresolved(doc, Split(path), value, path)

\* self.data after the "/section/key" arm ran on the root map in which the
\* section was inserted if missing: with the key inserted, or as it stands
\* when the section is no object
AfterSection(root, inserted) == IF inserted.some THEN inserted.v ELSE Obj(root)

\* self.data after the else branch of RuntimeState::set
AfterUnresolved(doc, parts, value) ==
    IF SetRootKey(doc, parts, value).some THEN SetRootKey(doc, parts, value).v
    ELSE IF Len(parts) = 3 /\ doc.t = "obj"
         THEN AfterSection(WithSection(doc.m, parts[2]),
                           InsertInSection(WithSection(doc.m, parts[2]),
                                           parts[2], parts[3], value))
         ELSE doc

\* self.data after RuntimeState::set returned, Ok or Err
AfterSet(doc, path, value) ==
    IF Pointer(doc, path).some
    THEN (IF path = <<>> THEN value ELSE Replace(doc, Tokens(path), value))
    ELSE AfterUnresolved(doc, Split(path), value)

---------------------------------------------------------------------------
(* Runtime::exec_op *)

\* (mutant) an operand that is missing or no number counts as 0
NumberOfOrZero(r, path) ==
    IF r.ok /\ r.v.t = "num" THEN Ok(AsF64(r.v).v) ELSE Ok(F(0))

\* .as_f64().ok_or_else(..) on get's result
NumberOf(r, path) ==
    IF ~r.ok THEN r
    ELSE IF r.v.t = "num" THEN Ok(AsF64(r.v).v)
    ELSE Err("NotANumber", path)

get_f64(doc, path) == NumberOf(get(doc, path), path)

\* .as_array().cloned().ok_or_else(..) on get's result
ArrayOf(r, path) ==
    IF ~r.ok THEN r
    ELSE IF r.v.t = "arr" THEN Ok(r.v.a)
    ELSE Err("NotAnArray", path)

get_array(doc, path) == ArrayOf(get(doc, path), path)

\* Value::get(&str): the member of an object, nothing for any other value.
Member(v, key) ==
    IF v.t = "obj" /\ key \in DOMAIN v.m THEN Some(v.m[key]) ELSE None

\* Result::ok
OkOf(r) == IF r.ok THEN Some(r.v) ELSE None

\* A field-name string as a key of the model's objects: the empty string or a
\* single token.  A string holding a separator is the key of no object here.
KeyOf(target) ==
    IF target = <<>> THEN Some("")
    ELSE IF Len(target) = 1 /\ target[1] # Slash THEN Some(target[1])
    ELSE None

\* obj.get(target) for a field-name string
MemberAt(obj, key) == IF key.some THEN Member(obj, key.v) ELSE None

\* .and_then(|v| v.as_f64()).unwrap_or(0.0)
F64OrZero(opt) ==
    IF opt.some /\ opt.v.t = "num" THEN AsF64(opt.v).v ELSE F(0)

\* (mutant) every operand is read from the element
resolve_operandFromElement(doc, obj, target) ==
    F64OrZero(MemberAt(obj, KeyOf(target)))

\* Calculate's resolve_operand closure
resolve_operand(doc, obj, target) ==
    IF StartsWithSlash(target)
    THEN F64OrZero(OkOf(get(doc, target)))
    ELSE F64OrZero(MemberAt(obj, KeyOf(target)))

\* (mutant) a division by zero leaves the numerator
MathResDivideKeepsNumerator(operator, v1, v2) ==
    CASE operator = "add"      -> FAdd(v1, v2)
      [] operator = "subtract" -> FSub(v1, v2)
      [] operator = "multiply" -> FMul(v1, v2)
      [] operator = "divide"   -> IF ~FIsZero(v2) THEN FDiv(v1, v2) ELSE v1

\* The match on MathOp inside Calculate
MathRes(operator, v1, v2) ==
    CASE operator = "add"      -> FAdd(v1, v2)
      [] operator = "subtract" -> FSub(v1, v2)
      [] operator = "multiply" -> FMul(v1, v2)
      [] operator = "divide"   -> IF ~FIsZero(v2) THEN FDiv(v1, v2) ELSE F(0)

\* The body of Calculate's loop for one element
CalcItem(doc, item, op) ==
    IF item.t = "obj"
    THEN Obj(Insert(item.m, op.output_field,
                    JsonF64(MathRes(op.operator,
                                    resolve_operand(doc, item, op.a_field),
                                    resolve_operand(doc, item, op.b_field)))))
    ELSE item

\* item.get(f).and_then(|v| v.as_f64())
NumberIn(m) == IF m.some THEN AsF64(m.v) ELSE None

\* (mutant) the field is ignored: always the element itself
ItemNumberOfElement(item, field) == AsF64(item)

\* The filter_map closure of Sum, Min and Max: the element's number, if any.
ItemNumber(item, field) ==
    IF field.some THEN NumberIn(Member(item, field.v)) ELSE AsF64(item)

\* One application of the folding function; x is the closure's Option.
FoldOne(acc, x, kind) ==
    IF ~x.some THEN acc
    ELSE CASE kind = "sum" -> FAdd(acc, x.v)
           [] kind = "min" -> IF FLess(x.v, acc) THEN x.v ELSE acc
           [] kind = "max" -> IF FLess(acc, x.v) THEN x.v ELSE acc

\* iter().filter_map(..).fold(init, f), from the left
RECURSIVE FoldNumbers(_, _, _, _)
FoldNumbers(arr, field, acc, kind) ==
    IF arr = <<>> THEN acc
    ELSE FoldNumbers(Tail(arr), field,
                     FoldOne(acc, ItemNumber(Head(arr), field), kind), kind)

\* The variants of ConstantValue; a Number holds an f64.
CString(s) == [c |-> "string", s |-> s]

CNumber(x) == [c |-> "number", x |-> x]

CBool(b) == [c |-> "bool", b |-> b]

CNull == [c |-> "null"]

\* The match of the Constant arm: json!(..) of what the variant holds
ConstantJson(value) ==
    CASE value.c = "string" -> Str(value.s)
      [] value.c = "number" -> JsonF64(value.x)
      [] value.c = "bool"   -> Bool(value.b)
      [] value.c = "null"   -> Null

ArithOps == {"add", "subtract", "multiply"}

\* Add / Subtract / Multiply on the operands' results: a's error comes first.
ArithResult(operator, a, b) ==
    IF ~a.ok THEN a
    ELSE IF ~b.ok THEN b
    ELSE Ok(JsonF64(MathRes(operator, a.v, b.v)))

ExecArith(op, doc) ==
    ArithResult(op.op, get_f64(doc, op.a), get_f64(doc, op.b))

\* (mutant) the numerator is resolved before the denominator is tested
DivideResultNumeratorFirst(a, v2, bpath) ==
    IF ~a.ok THEN a
    ELSE IF ~v2.ok THEN v2
    ELSE IF FIsZero(v2.v) THEN Err("DivisionByZero", bpath)
    ELSE Ok(JsonF64(FDiv(a.v, v2.v)))

\* Divide on the operands' results: b is resolved and tested first, then a.
DivideResult(a, v2, bpath) ==
    IF ~v2.ok THEN v2
    ELSE IF FIsZero(v2.v) THEN Err("DivisionByZero", bpath)
    ELSE IF ~a.ok THEN a
    ELSE Ok(JsonF64(FDiv(a.v, v2.v)))

ExecDivide(op, doc) ==
    DivideResult(get_f64(doc, op.a), get_f64(doc, op.b), op.b)

CalculateResult(arr, op, doc) ==
    IF ~arr.ok THEN arr
    ELSE Ok(Arr([i \in 1..Len(arr.v) |-> CalcItem(doc, arr.v[i], op)]))

ExecCalculate(op, doc) ==
    CalculateResult(get_array(doc, op.list_path), op, doc)

FoldInit(kind) ==
    CASE kind = "sum" -> F(0)
      [] kind = "min" -> PosInf
      [] kind = "max" -> NegInf

FoldResult(arr, op) ==
    IF ~arr.ok THEN arr
    ELSE Ok(JsonF64(FoldNumbers(arr.v, op.field, FoldInit(op.op), op.op)))

\* Sum, Min and Max
ExecFold(op, doc) == FoldResult(get_array(doc, op.list_path), op)

CountResult(arr) == IF ~arr.ok THEN arr ELSE Ok(Int64(Len(arr.v)))

ExecCount(op, doc) == CountResult(get_array(doc, op.list_path))

\* obj.get(key).cloned().unwrap_or(Value::Null)
OrNull(m) == IF m.some THEN m.v ELSE Null

PluckResult(arr, key) ==
    IF ~arr.ok THEN arr
    ELSE Ok(Arr([i \in 1..Len(arr.v) |-> OrNull(Member(arr.v[i], key))]))

ExecPluck(op, doc) == PluckResult(get_array(doc, op.path), op.key)

\* The sort key of an element: a.get(field).and_then(as_f64).unwrap_or(0.0)
SortKey(item, field) == F64OrZero(Member(item, field))

\* The comparator of sort_by says Less: val_a.partial_cmp(&val_b) on two
\* finite numbers.
SortsBefore(a, b, field) == FLess(SortKey(a, field), SortKey(b, field))

\* (mutant) an element goes before the elements of equal key
RECURSIVE InsertBeforeEqual(_, _, _)
InsertBeforeEqual(sorted, x, field) ==
    IF sorted = <<>> THEN <<x>>
    ELSE IF ~SortsBefore(Head(sorted), x, field) THEN <<x>> \o sorted
    ELSE <<Head(sorted)>> \o InsertBeforeEqual(Tail(sorted), x, field)

\* One element put into a sorted run, behind every element that does not
\* sort after it: what a stable sort does with an element that comes later.
RECURSIVE InsertStable(_, _, _)
InsertStable(sorted, x, field) ==
    IF sorted = <<>> THEN <<x>>
    ELSE IF SortsBefore(x, Head(sorted), field) THEN <<x>> \o sorted
    ELSE <<Head(sorted)>> \o InsertStable(Tail(sorted), x, field)

\* slice::sort_by (a stable sort) of arr[1..n]
RECURSIVE sort_by(_, _, _)
sort_by(arr, field, n) ==
    IF n = 0 THEN <<>>
    ELSE InsertStable(sort_by(arr, field, n - 1), arr[n], field)

\* slice::reverse
Reverse(seq) == [i \in 1..Len(seq) |-> seq[Len(seq) + 1 - i]]

\* if *descending { arr.reverse(); }
Directed(sorted, descending) == IF descending THEN Reverse(sorted) ELSE sorted

\* (mutant) a descending sort that keeps equal keys in their input order
SortResultStableDescending(arr, op) ==
    IF ~arr.ok THEN arr
    ELSE IF op.descending
         THEN Ok(Arr(Reverse(sort_by(Reverse(arr.v), op.field, Len(arr.v)))))
         ELSE Ok(Arr(sort_by(arr.v, op.field, Len(arr.v))))

SortResult(arr, op) ==
    IF ~arr.ok THEN arr
    ELSE Ok(Arr(Directed(sort_by(arr.v, op.field, Len(arr.v)), op.descending)))

ExecSort(op, doc) == SortResult(get_array(doc, op.list_path), op)

\* (v - value).abs() < f64::EPSILON.  The numbers of the model are fractions
\* of small denominators: two of them that differ, differ by more than
\* EPSILON (2^-52), so the test is that of the difference being zero.
WithinEpsilon(v, value) == FIsZero(FSub(v, value))

\* The match on CmpOp
Compare(operator, v, value) ==
    CASE operator = "gt"  -> FLess(value, v)
      [] operator = "lt"  -> FLess(v, value)
      [] operator = "eq"  -> WithinEpsilon(v, value)
      [] operator = "gte" -> ~FLess(v, value)
      [] operator = "lte" -> ~FLess(value, v)

\* (mutant) an element without a number is compared as 0
KeepsMissingAsZero(val, op) ==
    Compare(op.operator, IF val.some THEN val.v ELSE F(0), op.value)

\* The filter closure of FilterNumeric on the element's number, if any
Keeps(val, op) == IF val.some THEN Compare(op.operator, val.v, op.value) ELSE FALSE

FilterResult(arr, op) ==
    IF ~arr.ok THEN arr
    ELSE Ok(Arr(SelectSeq(arr.v, LAMBDA item : Keeps(ItemNumber(item, op.field), op))))

ExecFilterNumeric(op, doc) == FilterResult(get_array(doc, op.list_path), op)

\* Strings that FormatString works on are sequences of characters, each a
\* string of length one.

\* The decimal digits of a natural number
RECURSIVE Digits(_)
Digits(n) ==
    IF n < 10 THEN <<ToString(n)>> ELSE Digits(n \div 10) \o <<ToString(n % 10)>>

\* The digits behind the decimal point of r / d, for 0 <= r < d and a
\* fraction that ends
RECURSIVE DecimalDigits(_, _)
DecimalDigits(r, d) ==
    IF r = 0 THEN <<>>
    ELSE <<ToString((r * 10) \div d)>> \o DecimalDigits((r * 10) % d, d)

Sign(n) == IF n < 0 THEN <<"-">> ELSE <<>>

\* Number::to_string: an integer as its digits, a float with at least one
\* digit behind the point
NumberText(v) ==
    IF ~v.f THEN Sign(v.n) \o Digits(Abs(v.n))
    ELSE Sign(v.n) \o Digits(Abs(v.n) \div v.d) \o <<".">>
            \o (IF Abs(v.n) % v.d = 0 THEN <<"0">>
                ELSE DecimalDigits(Abs(v.n) % v.d, v.d))

\* The texts of the elements with commas between them
RECURSIVE Commas(_)
Commas(texts) ==
    IF texts = <<>> THEN <<>>
    ELSE IF Len(texts) = 1 THEN texts[1]
    ELSE texts[1] \o <<",">> \o Commas(Tail(texts))

\* Value::to_string: the compact JSON text.  Characters that JSON escapes do
\* not occur in the model's strings; an object has one member at most, of a
\* key of one character.
RECURSIVE JsonText(_)
JsonText(v) ==
    CASE v.t = "null" -> <<"n", "u", "l", "l">>
      [] v.t = "bool" -> IF v.b THEN <<"t", "r", "u", "e">>
                         ELSE <<"f", "a", "l", "s", "e">>
      [] v.t = "num"  -> NumberText(v)
      [] v.t = "str"  -> <<"\"">> \o v.s \o <<"\"">>
      [] v.t = "arr"  -> <<"[">> \o Commas([i \in 1..Len(v.a) |-> JsonText(v.a[i])])
                            \o <<"]">>
      [] v.t = "obj" /\ DOMAIN v.m = {} -> <<"{", "}">>
      [] v.t = "obj" /\ Cardinality(DOMAIN v.m) = 1 ->
            <<"{", "\"">> \o <<CHOOSE k \in DOMAIN v.m : TRUE>> \o <<"\"", ":">>
               \o JsonText(v.m[CHOOSE k \in DOMAIN v.m : TRUE]) \o <<"}">>

\* The match on val in FormatString
TextOf(val) ==
    CASE val.t = "str"  -> val.s
      [] val.t = "num"  -> NumberText(val)
      [] val.t = "bool" -> JsonText(val)
      [] OTHER          -> JsonText(val)

\* format!("{{{}}}", var.key)
Placeholder(key) == <<"{">> \o key \o <<"}">>

\* str::replace: every match of pat, found from the left without overlap
RECURSIVE ReplaceAll(_, _, _)
ReplaceAll(text, pat, to) ==
    IF Len(text) < Len(pat) THEN text
    ELSE IF SubSeq(text, 1, Len(pat)) = pat
         THEN to \o ReplaceAll(SubSeq(text, Len(pat) + 1, Len(text)), pat, to)
         ELSE <<Head(text)>> \o ReplaceAll(Tail(text), pat, to)

\* (mutant) the placeholder of a variable that does not resolve is removed
SubstitutedOrBlank(acc, var, val) ==
    IF val.ok THEN ReplaceAll(acc, Placeholder(var.key), TextOf(val.v))
    ELSE ReplaceAll(acc, Placeholder(var.key), <<>>)

\* The body of the loop over the variables; val is state.get(&var.path)
Substituted(acc, var, val) ==
    IF val.ok THEN ReplaceAll(acc, Placeholder(var.key), TextOf(val.v))
    ELSE acc

\* The loop over the variables
RECURSIVE FormatVars(_, _, _)
FormatVars(acc, variables, doc) ==
    IF variables = <<>> THEN acc
    ELSE FormatVars(Substituted(acc, Head(variables),
                                get(doc, Head(variables).path)),
                    Tail(variables), doc)

ExecFormatString(op, doc) == Ok(Str(FormatVars(op.template, op.variables, doc)))

\* Runtime::exec_op: the result value or the error; the state is only read.
exec_op(op, doc) ==
    CASE op.op = "get"       -> get(doc, op.path)
      [] op.op = "constant"  -> Ok(ConstantJson(op.value))
      [] op.op \in ArithOps  -> ExecArith(op, doc)
      [] op.op = "divide"    -> ExecDivide(op, doc)
      [] op.op = "calculate" -> ExecCalculate(op, doc)
      [] op.op \in {"sum", "min", "max"} -> ExecFold(op, doc)
      [] op.op = "count"     -> ExecCount(op, doc)
      [] op.op = "pluck"     -> ExecPluck(op, doc)
      [] op.op = "sort"      -> ExecSort(op, doc)
      [] op.op = "filter_numeric" -> ExecFilterNumeric(op, doc)
      [] op.op = "format_string" -> ExecFormatString(op, doc)

---------------------------------------------------------------------------
(* Runtime::execute, one program step at a time *)

\* orch and client where build_application and write_logic are not running
NoLoop == [at |-> "none"]

NoCall == [at |-> "none"]

Running == [status |-> "running"]

Returned(r) == [status |-> "returned", r |-> r]

\* The two `?` of the loop body: the step's error, or the document after
\* the write.  r is exec_op's result; w is set's result (consulted only when
\* r is Ok).
StepOutcomeSkipsFailedWrite(r, w) ==
    IF ~r.ok THEN r
    ELSE IF ~w.ok THEN Ok(data)
    ELSE Ok(w.v)

StepOutcome(r, w) ==
    IF ~r.ok THEN r
    ELSE IF ~w.ok THEN w
    ELSE Ok(w.v)

\* The loop body for program.steps[pc].  The log keeps what exec_op and
\* set returned and the document the step was evaluated against; left is
\* state.data as the step left it when it failed.
Commit(r, w, out, left) ==
    /\ log' = Append(log, [pre |-> data, res |-> r, wr |-> w])
    /\ IF out.ok
       THEN /\ data' = out.v
            /\ pc' = pc + 1
            /\ UNCHANGED result
       ELSE /\ result' = Returned(out)
            /\ data' = left
            /\ UNCHANGED pc

Written(r, w, left) == Commit(r, w, StepOutcome(r, w), left)

Evaluated(r, output_path) ==
    Written(r, IF r.ok THEN set(data, output_path, r.v) ELSE r,
               IF r.ok THEN AfterSet(data, output_path, r.v) ELSE data)

Step ==
    /\ result = Running
    /\ pc <= Len(program.steps)
    /\ Evaluated(exec_op(program.steps[pc].operation, data),
                 program.steps[pc].output_path)
    /\ UNCHANGED <<program, inputs, calls, orch, client>>

\* The key strings of the model that hold a separator, with their text
\* between and at the separators.
CompositeNames == [k \in {"temp/a"} |-> <<"temp", Slash, "a">>]

\* The text of a key string as it stands in a path
NameTokens(key) ==
    IF key = "" THEN <<>>
    ELSE IF key \in DOMAIN CompositeNames THEN CompositeNames[key]
    ELSE <<key>>

\* format!("/{}", key)
KeyPath(key) == <<Slash>> \o NameTokens(key)

\* The lookup of one output_schema property name in the final document
FirstFound(byKey, byPointer) == IF byKey.some THEN byKey ELSE byPointer

ExtractKey(doc, key) == FirstFound(Member(doc, key), Pointer(doc, KeyPath(key)))

\* output_schema.get("properties").and_then(|v| v.as_object())
AsObject(p) == IF p.some /\ p.v.t = "obj" THEN Some(p.v.m) ELSE None

SchemaProps(schema) == AsObject(Member(schema, "properties"))

\* The map built by the loop over props.keys()
StructuredOutput(props, doc) ==
    [k \in {j \in DOMAIN props : ExtractKey(doc, j).some} |-> ExtractKey(doc, k).v]

\* (mutant) the map is returned even when it is empty
OutputOrAlwaysMap(structured_output, doc) == Obj(structured_output)

\* The return after the loop: the map unless it is empty
OutputOr(structured_output, doc) ==
    IF DOMAIN structured_output # {} THEN Obj(structured_output) ELSE doc

OutputFor(props, doc) ==
    IF props.some THEN OutputOr(StructuredOutput(props.v, doc), doc) ELSE doc

\* The output extraction of execute
ExtractOutput(schema, doc) == OutputFor(SchemaProps(schema), doc)

\* Past the last step: the output extraction and the return of execute.
Extract ==
    /\ result = Running
    /\ pc > Len(program.steps)
    /\ result' = Returned(Ok(ExtractOutput(program.definition.output_schema, data)))
    /\ UNCHANGED <<program, inputs, data, pc, log, calls, orch, client>>

Next == Step \/ Extract

\* The state right after RuntimeState::new(inputs) in execute
InitWith(Programs, Inputs) ==
    /\ program \in Programs
    /\ inputs \in Inputs
    /\ data = RuntimeState_new(inputs)
    /\ pc = 1
    /\ result = Running
    /\ log = <<>>
    /\ calls = <<>>
    /\ orch = NoLoop
    /\ client = NoCall

---------------------------------------------------------------------------
(* Runtime::execute as a whole, and several calls of it side by side *)

\* The rest of execute from step k on, on the document doc
RECURSIVE RunFrom(_, _, _)
RunFrom(prog, doc, k) ==
    IF k > Len(prog.steps) THEN Ok(ExtractOutput(prog.definition.output_schema, doc))
    ELSE LET r == exec_op(prog.steps[k].operation, doc)
             w == IF r.ok THEN set(doc, prog.steps[k].output_path, r.v) ELSE r
         IN  IF ~r.ok THEN r
             ELSE IF ~w.ok THEN w
             ELSE RunFrom(prog, w.v, k + 1)

\* Runtime::execute(program, inputs): what it returns
execute(prog, in) == RunFrom(prog, RuntimeState_new(in), 1)

\* A call of execute right after `let mut state = RuntimeState::new(inputs)`
NewCall(in) ==
    [inputs |-> in, data |-> RuntimeState_new(in), pc |-> 1, result |-> Running]

\* (mutant) the calls work on one state, that of the first call
StateOfFirstCall(c) == calls[1].data

\* The state a call works on: its own
StateOf(c) == calls[c].data

\* (mutant) a successful write of call c also lands in the other calls' states
CallCommitShared(c, out) ==
    calls' = [d \in DOMAIN calls |->
                 IF d = c
                 THEN IF out.ok THEN [calls[d] EXCEPT !.data = out.v, !.pc = @ + 1]
                      ELSE [calls[d] EXCEPT !.result = Returned(out)]
                 ELSE IF out.ok THEN [calls[d] EXCEPT !.data = out.v]
                      ELSE calls[d]]

\* The loop body of call c; out is the outcome of its two `?`
CallCommit(c, out) ==
    calls' = [calls EXCEPT ![c] =
                 IF out.ok THEN [@ EXCEPT !.data = out.v, !.pc = @ + 1]
                 ELSE [@ EXCEPT !.result = Returned(out)]]

CallWritten(c, r, w) == CallCommit(c, StepOutcome(r, w))

CallEvaluated(c, r, output_path) ==
    CallWritten(c, r, IF r.ok THEN set(StateOf(c), output_path, r.v) ELSE r)

CallStep(c) ==
    /\ calls[c].result = Running
    /\ calls[c].pc <= Len(program.steps)
    /\ CallEvaluated(c, exec_op(program.steps[calls[c].pc].operation, StateOf(c)),
                     program.steps[calls[c].pc].output_path)
    /\ UNCHANGED <<program, inputs, data, pc, result, log, orch, client>>

CallExtract(c) ==
    /\ calls[c].result = Running
    /\ calls[c].pc > Len(program.steps)
    /\ calls' = [calls EXCEPT ![c].result =
                    Returned(Ok(ExtractOutput(program.definition.output_schema,
                                              StateOf(c))))]
    /\ UNCHANGED <<program, inputs, data, pc, result, log, orch, client>>

\* Any of the calls takes its next step.
NextCalls == \E c \in DOMAIN calls : CallStep(c) \/ CallExtract(c)

\* n calls of execute on one program, each with inputs of its own
InitCalls(Programs, Inputs, n) ==
    /\ program \in Programs
    /\ calls \in [1..n -> {NewCall(in) : in \in Inputs}]
    /\ inputs = Null
    /\ data = Null
    /\ pc = 0
    /\ result = Running
    /\ log = <<>>
    /\ orch = NoLoop
    /\ client = NoCall

---------------------------------------------------------------------------
(* Programs and inputs of the general specification *)

MaxSteps == 3

SeqsUpTo(S, n) == UNION {[1..k -> S] : k \in 0..n}

ProgramsOf(Schemas, Pool, n) ==
    {[definition |-> [output_schema |-> sch], steps |-> ss] :
        sch \in Schemas, ss \in SeqsUpTo(Pool, n)}

LogicStep(operation, output_path) ==
    [operation |-> operation, output_path |-> output_path]

OpGet(path) == [op |-> "get", path |-> path]

OpConstant(value) == [op |-> "constant", value |-> value]

P_x == <<Slash, "x">>
P_inputs_x == <<Slash, "inputs", Slash, "x">>
P_temp == <<Slash, "temp">>
P_temp_a == <<Slash, "temp", Slash, "a">>
P_inputs == <<Slash, "inputs">>
P_out == <<Slash, "out">>
P_b == <<Slash, "b">>
P_q_b == <<"q", Slash, "b">>
P_a_b_c == <<Slash, "a", Slash, "b", Slash, "c">>
P_root == <<>>

SchemaTotal == Obj([k \in {"properties"} |-> Obj([j \in {"out"} |-> Obj(EmptyMap)])])

StepPool ==
    { LogicStep(OpConstant(CNumber(F(9))), P_x),
      LogicStep(OpConstant(CNumber(F(9))), P_inputs_x),
      LogicStep(OpConstant(CNumber(F(8))), P_q_b),
      LogicStep(OpConstant(CString("s")), P_temp_a),
      LogicStep(OpConstant(CNumber(F(7))), P_temp),
      LogicStep(OpConstant(CNull), P_inputs),
      LogicStep(OpConstant(CBool(TRUE)), P_a_b_c),
      LogicStep(OpGet(P_x), P_out),
      LogicStep(OpGet(P_inputs_x), P_out),
      LogicStep(OpGet(P_q_b), P_out),
      LogicStep(OpGet(P_temp_a), P_out),
      LogicStep(OpGet(P_temp), P_x),
      LogicStep(OpGet(P_inputs), P_root),
      LogicStep(OpGet(P_b), P_temp_a) }

InputsPool ==
    { Obj([k \in {"x", "temp"} |-> IF k = "x" THEN Int64(1) ELSE Int64(5)]),
      Obj([k \in {"x", "inputs"} |-> IF k = "x" THEN Str("in") ELSE Int64(2)]) }

Init == InitWith(ProgramsOf({SchemaTotal}, StepPool, MaxSteps), InputsPool)

Spec == Init /\ [][Next]_vars

---------------------------------------------------------------------------
(* Vocabulary of the properties *)

Steps == program.steps

Fresh == RuntimeState_new(inputs)

\* Step j was evaluated and its write was applied.
StepWrote(j) == j \in 1..Len(log) /\ log[j].res.ok /\ log[j].wr.ok

\* Step j was evaluated and failed, in its operation or in its write.
StepFailed(j) == j \in 1..Len(log) /\ ~(log[j].res.ok /\ log[j].wr.ok)

\* The error step j failed with.
StepError(j) == IF ~log[j].res.ok THEN log[j].res ELSE log[j].wr

IsPrefix(a, b) == Len(a) <= Len(b) /\ SubSeq(b, 1, Len(a)) = a

\* Two locations (sequences of keys), one inside the other or the same.
Overlap(a, b) == IsPrefix(a, b) \/ IsPrefix(b, a)

\* The location a successful set(path, _) assigns: the parts after the first.
WriteLoc(path) == Tail(Split(path))

\* The locations get(path) may read: the path itself and the same path
\* under inputs.  A path that neither is empty nor starts with '/' reads none.
ReadLocs(path) ==
    IF path = <<>> THEN {<<>>}
    ELSE IF StartsWithSlash(path)
         THEN {Tokens(path), <<"inputs">> \o Tokens(path)}
         ELSE {}

\* Step j wrote to path p, or wrote a location that a read of p may see.
Touches(j, p) ==
    /\ StepWrote(j)
    /\ \/ Steps[j].output_path = p
       \/ \E l \in ReadLocs(p) : Overlap(WriteLoc(Steps[j].output_path), l)

Max(S) == CHOOSE x \in S : \A y \in S : y <= x

\* The steps before k that touch p
Touching(k, p) == {j \in 1..(k - 1) : Touches(j, p)}

IsPointer(path) == path = <<>> \/ StartsWithSlash(path)

---------------------------------------------------------------------------
(* C1 *)

\* C1 (as claimed): steps run in program order, each against the state left
\* by all earlier writes: every evaluated step k is step k of the program,
\* evaluated against the document after steps 1..k-1, and a Get of path p
\* obtains the value most recently written to p by an earlier step (no later
\* earlier step having written over it), or what the fresh state gives for p
\* when no earlier step wrote it.
C1_ReadsLatestWrite ==
    \A k \in 1..Len(log) :
        /\ log[k].res = exec_op(Steps[k].operation, log[k].pre)
        /\ log[k].pre = IF k = 1 THEN Fresh ELSE log[k - 1].wr.v
        /\ Steps[k].operation.op = "get" =>
             LET p == Steps[k].operation.path
                 T == Touching(k, p)
             IN  /\ T = {} => log[k].res = get(Fresh, p)
                 /\ (T # {} /\ Steps[Max(T)].output_path = p)
                       => log[k].res = Ok(log[Max(T)].res.v)

\* The same, for the paths that are pointers (empty or starting with '/').
C1_ReadsLatestPointerWrite ==
    \A k \in 1..Len(log) :
        /\ log[k].res = exec_op(Steps[k].operation, log[k].pre)
        /\ log[k].pre = IF k = 1 THEN Fresh ELSE log[k - 1].wr.v
        /\ Steps[k].operation.op = "get" =>
             LET p == Steps[k].operation.path
                 T == Touching(k, p)
             IN  /\ T = {} => log[k].res = get(Fresh, p)
                 /\ (T # {} /\ Steps[Max(T)].output_path = p /\ IsPointer(p))
                       => log[k].res = Ok(log[Max(T)].res.v)

---------------------------------------------------------------------------
(* C2 *)

\* C2: a failed step is the last step evaluated, execute has returned that
\* step's error and not a value, the failed step wrote nothing, and execute
\* returns a value only after every step of the program succeeded.
C2_FirstFailureAborts ==
    /\ \A k \in 1..Len(log) :
          StepFailed(k) =>
             /\ k = Len(log)
             /\ pc = k
             /\ \A j \in 1..(k - 1) : StepWrote(j)
             /\ result = Returned(StepError(k))
             /\ data = log[k].pre
    /\ (result # Running /\ result.r.ok) =>
          /\ Len(log) = Len(Steps)
          /\ \A j \in 1..Len(Steps) : StepWrote(j)

\* A write failure at a step that is neither the first nor the last.
C2_Witness ==
    /\ Len(log) > 1
    /\ Len(log) < Len(Steps)
    /\ log[Len(log)].res.ok
    /\ ~log[Len(log)].wr.ok
    /\ result = Returned(log[Len(log)].wr)

---------------------------------------------------------------------------
(* C3 *)

\* Two results of get give the same value: both fail, or both give one value.
SameValue(r1, r2) == r1.ok = r2.ok /\ (r1.ok => r1.v = r2.v)

\* Step j wrote the root key x: it assigned the whole document, or root key
\* x, or something inside root key x.
WroteRootKey(j, x) ==
    /\ StepWrote(j)
    /\ LET loc == WriteLoc(Steps[j].output_path)
       IN  loc = <<>> \/ Head(loc) = x

NoStepWroteRootKey(x) == \A j \in 1..Len(log) : ~WroteRootKey(j, x)

SectionKeys == DOMAIN RuntimeState_new(Null).m

---------------------------------------------------------------------------
(* C6 *)

\* The paths the properties of get and set are stated over
ReadPaths ==
    {P_x, P_inputs_x, P_temp, P_temp_a, P_inputs, P_out, P_b, P_q_b, P_a_b_c,
     P_root, <<"x">>, <<Slash>>, <<Slash, "inputs", Slash, "inputs">>,
     <<Slash, "inputs", Slash, "temp">>, <<Slash, "0">>}

\* get gives the exact match when there is one, else the match under inputs
\* when the path starts with '/' and there is one, else path-not-found.
GetOrder(doc) ==
    \A p \in ReadPaths :
        LET exact == Pointer(doc, p)
            under == IF StartsWithSlash(p) THEN Pointer(doc, <<Slash, "inputs">> \o p)
                     ELSE None
        IN  /\ exact.some => get(doc, p) = Ok(exact.v)
            /\ (~exact.some /\ under.some) => get(doc, p) = Ok(under.v)
            /\ (~exact.some /\ ~under.some) => get(doc, p) = Err("PointerNotFound", p)

\* Step k wrote "/x" for an input key x, and is the last step evaluated.
JustWroteInputKey(k, x) ==
    /\ k = Len(log) /\ StepWrote(k)
    /\ inputs.t = "obj" /\ x \in DOMAIN inputs.m
    /\ Steps[k].output_path = KeyPath(x)

\* After that write "/x" gives the written value, and "/inputs/x" gives what
\* it gave before: the original input value if inputs was not written before.
ShadowedBy(k, x) ==
    /\ get(data, KeyPath(x)) = Ok(log[k].res.v)
    /\ get(data, InputPath(KeyPath(x))) = get(log[k].pre, InputPath(KeyPath(x)))
    /\ Member(log[k].pre, "inputs") = Some(inputs)
          => get(data, InputPath(KeyPath(x))) = Ok(inputs.m[x])

---------------------------------------------------------------------------
(* The state store alone: programs of Get and Constant steps that build      *)
(* nested objects, arrays and a document that is no object                   *)

StoreSteps == 2

P_a == <<Slash, "a">>
P_a_0 == <<Slash, "a", Slash, "0">>
P_temp_a_a == <<Slash, "temp", Slash, "a", Slash, "a">>
P_a_a == <<Slash, "a", Slash, "a">>
P_inputs_items == <<Slash, "inputs", Slash, "items">>
P_slash == <<Slash>>

StorePool ==
    { LogicStep(OpConstant(CNumber(F(1))), P_temp_a_a),
      LogicStep(OpConstant(CString("s")), P_a_a),
      LogicStep(OpConstant(CBool(FALSE)), P_a_0),
      LogicStep(OpConstant(CNull), P_slash),
      LogicStep(OpGet(P_inputs), P_temp_a),
      LogicStep(OpGet(P_inputs_items), P_a),
      LogicStep(OpGet(P_inputs_items), P_root) }

StoreInputs ==
    { Obj([k \in {"items", "a"} |->
             IF k = "items" THEN Arr(<<Int64(4), Obj(EmptyMap)>>) ELSE Int64(2)]),
      Obj([k \in {"items"} |-> Arr(<<>>)]) }

InitStore == InitWith(ProgramsOf({SchemaTotal}, StorePool, StoreSteps), StoreInputs)

SpecStore == InitStore /\ [][Next]_vars

\* Key names, the empty name among them
Names == {"", "a", "temp", "0"}

\* The path string with the given parts between separators
RECURSIVE Join(_)
Join(parts) ==
    IF Len(parts) = 1 THEN (IF parts[1] = "" THEN <<>> ELSE <<parts[1]>>)
    ELSE Join(SubSeq(parts, 1, Len(parts) - 1))
            \o <<Slash>>
            \o (IF parts[Len(parts)] = "" THEN <<>> ELSE <<parts[Len(parts)]>>)

\* Every path string of up to four separators over the names, with or
\* without text before the first separator
PathUniverse ==
    {Join(<<h>>) : h \in {"", "q"}}
    \cup {Join(<<h, a>>) : h \in {"", "q"}, a \in Names}
    \cup {Join(<<h, a, b>>) : h \in {"", "q"}, a \in Names, b \in Names}
    \cup {Join(<<h, a, b, c>>) : h \in {"", "q"}, a \in Names, b \in Names, c \in Names}
    \cup {Join(<<h, a, b, c, d>>) :
            h \in {"", "q"}, a \in Names, b \in Names, c \in Names, d \in Names}

Values == {Int64(3), Obj(EmptyMap)}

\* The number of segments of a path string: its separators
Segments(path) == Len(Split(path)) - 1

---------------------------------------------------------------------------
(* C5 *)

\* set(path, value) on a resolving path replaces in place: it succeeds, the
\* path then holds the value, and every path not inside, above or at it
\* resolves as before.
ReplacesInPlace(doc, path, value) ==
    LET r == set(doc, path, value) IN
    /\ r.ok
    /\ Pointer(r.v, path) = Some(value)
    /\ \A q \in ReadPaths \cup {p \in PathUniverse : Len(p) <= Len(path)} :
          (IsPointer(q) /\ ~Overlap(WriteLoc(q), WriteLoc(path)))
              => Pointer(r.v, q) = Pointer(doc, q)

\* C5: on a path that resolves set replaces in place; on a path that does
\* not, it succeeds only with one or two segments, and with none or with three
\* or more it fails with the invalid-write-path error.
C5_SetCases ==
    \A path \in PathUniverse : \A value \in Values :
        IF Pointer(data, path).some
        THEN ReplacesInPlace(data, path, value)
        ELSE /\ set(data, path, value).ok => Segments(path) \in {1, 2}
             /\ Segments(path) \notin {1, 2}
                   => set(data, path, value) = Err("CannotSetPath", path)

\* A write of "/temp/a/a" failed although "/temp/a" is an object.
C5_Witness ==
    /\ Len(log) = 2
    /\ StepWrote(1)
    /\ Steps[2].output_path = P_temp_a_a
    /\ P_temp_a_a \in PathUniverse
    /\ Pointer(data, P_temp_a).some /\ Pointer(data, P_temp_a).v.t = "obj"
    /\ log[2].res.ok
    /\ log[2].wr = Err("CannotSetPath", P_temp_a_a)

---------------------------------------------------------------------------
(* C4 *)

\* On document doc: set("/a", v) succeeds and get("/a") then gives v.
CreatesRootKey(doc, a, v) ==
    LET p == Join(<<"", a>>)
        r == set(doc, p, v)
    IN  r.ok /\ get(r.v, p) = Ok(v)

\* On document doc: set("/a/b", v) succeeds, the document then is doc with
\* the added member a: {b: v}, and get("/a/b") gives v.
CreatesSection(doc, a, b, v) ==
    LET p == Join(<<"", a, b>>)
        r == set(doc, p, v)
    IN  /\ r.ok
        /\ r.v = Obj((a :> Obj(b :> v)) @@ doc.m)
        /\ get(r.v, p) = Ok(v)

\* On document doc: set("/a/b/c", v) fails with the invalid-write-path error.
RejectsDeepPath(doc, a, b, c, v) ==
    LET p == Join(<<"", a, b, c>>)
    IN  set(doc, p, v) = Err("CannotSetPath", p)

---------------------------------------------------------------------------
(* Output extraction: programs under every shape of output_schema           *)

OutSteps == 2

P_nope == <<Slash, "nope">>

OutPool ==
    { LogicStep(OpConstant(CNumber(F(9))), P_out),
      LogicStep(OpConstant(CString("s")), P_temp_a),
      LogicStep(OpConstant(CNumber(F(7))), P_x),
      LogicStep(OpGet(P_inputs_items), P_root),
      LogicStep(OpGet(P_nope), P_out) }

OutInputs ==
    { Obj([k \in {"x", "items"} |->
             IF k = "x" THEN Int64(1) ELSE Arr(<<Int64(4), Obj(EmptyMap)>>)]) }

\* An output_schema with the given top-level property names
SchemaOf(names) ==
    Obj([k \in {"properties"} |-> Obj([j \in names |-> Obj(EmptyMap)])])

OutSchemas ==
    { Null,
      Obj(EmptyMap),
      Arr(<<Str("properties")>>),
      Obj([k \in {"properties"} |-> Int64(5)]),
      SchemaOf({}),
      SchemaOf({"missing"}),
      SchemaOf({"out", "missing"}),
      SchemaOf({"inputs", "x"}),
      SchemaOf({"temp", "nope"}),
      SchemaOf({"0"}),
      SchemaOf({"temp/a"}),
      SchemaOf({"out", "temp/a"}) }

InitOut == InitWith(ProgramsOf(OutSchemas, OutPool, OutSteps), OutInputs)

SpecOut == InitOut /\ [][Next]_vars

\* execute returned after every step of the program succeeded.
ReturnedAfterAllSteps ==
    /\ result.status = "returned"
    /\ Len(log) = Len(Steps)
    /\ \A j \in 1..Len(log) : StepWrote(j)

\* The object-valued properties of the program's output_schema, if any
Props == SchemaProps(program.definition.output_schema)

\* The property names that are root keys of the document
RootKeyNames(doc) ==
    IF Props.some THEN {k \in DOMAIN Props.v : Member(doc, k).some} ELSE {}

\* The property names found by either lookup of the extraction
MatchedNames(doc) ==
    IF Props.some
    THEN {k \in DOMAIN Props.v :
             Member(doc, k).some \/ Pointer(doc, KeyPath(k)).some}
    ELSE {}

\* The object of the given root keys of the document, each with its value
RootKeysOnly(doc, keys) == Obj([k \in keys |-> doc.m[k]])

---------------------------------------------------------------------------
(* C7 *)

\* C7 (as claimed): when all steps succeeded and at least one property name
\* of output_schema is a root key of the final document, execute returns Ok
\* of the object whose keys are exactly the property names that are root
\* keys of the final document, each with the value at that root key.
C7_MatchedKeysOnly ==
    (ReturnedAfterAllSteps /\ RootKeyNames(data) # {}) =>
        result.r = Ok(RootKeysOnly(data, RootKeyNames(data)))

\* C7 for schemas none of whose property names holds a separator: the same
\* statement, which for these schemas holds.
C7_MatchedKeysOnlyFlatNames ==
    (/\ ReturnedAfterAllSteps
     /\ RootKeyNames(data) # {}
     /\ \A k \in DOMAIN Props.v : k \notin DOMAIN CompositeNames) =>
        result.r = Ok(RootKeysOnly(data, RootKeyNames(data)))

\* The schema names inputs and x, x is an input field but no root key: the
\* output holds inputs alone.
C7_Witness ==
    /\ ReturnedAfterAllSteps
    /\ Props.some
    /\ DOMAIN Props.v = {"inputs", "x"}
    /\ RootKeyNames(data) = {"inputs"}
    /\ get(data, P_x).ok
    /\ result.r = Ok(Obj("inputs" :> inputs))

---------------------------------------------------------------------------
(* C8 *)

\* C8: whenever every step of the program succeeded, execute returned Ok,
\* whatever output_schema is; and when output_schema has no object-valued
\* properties, or properties is empty, or neither lookup finds any of its
\* names in the final document, the value returned is the whole final
\* document.
C8_ExtractionNeverFails ==
    ReturnedAfterAllSteps =>
        /\ result.r.ok
        /\ MatchedNames(data) = {} => result.r.v = data

\* Returned the whole document the steps wrote, for a schema whose one name
\* is absent from it.
C8_Witness ==
    /\ ReturnedAfterAllSteps
    /\ Len(log) >= 2
    /\ data # Fresh
    /\ Props.some
    /\ DOMAIN Props.v = {"missing"}
    /\ result.r = Ok(data)

---------------------------------------------------------------------------
(* Division: programs of scalar Divide and of Calculate steps                *)

ArithSteps == 2

OpDivide(a, b) == [op |-> "divide", a |-> a, b |-> b]

OpCalculate(list_path, output_field, operator, a_field, b_field) ==
    [op |-> "calculate", list_path |-> list_path, output_field |-> output_field,
     operator |-> operator, a_field |-> a_field, b_field |-> b_field]

P_n == <<Slash, "n">>
P_k == <<Slash, "k">>
P_z == <<Slash, "z">>
P_d == <<Slash, "d">>
P_s == <<Slash, "s">>
P_inputs_zf == <<Slash, "inputs", Slash, "zf">>
P_items == <<Slash, "items">>
P_res == <<Slash, "res">>
FieldA == <<"a">>
FieldB == <<"b">>

ArithPool ==
    { LogicStep(OpDivide(P_n, P_z), P_out),
      LogicStep(OpDivide(P_nope, P_inputs_zf), P_out),
      LogicStep(OpDivide(P_s, P_d), P_out),
      LogicStep(OpDivide(P_n, P_k), P_z),
      LogicStep(OpDivide(P_n, P_s), P_out),
      LogicStep(OpConstant(CNumber(F(0))), P_d),
      LogicStep(OpCalculate(P_inputs_items, "r", "divide", FieldA, FieldB), P_res),
      LogicStep(OpCalculate(P_items, "b", "divide", FieldA, P_z), P_items),
      LogicStep(OpCalculate(P_items, "r", "divide", FieldA, FieldB), P_res),
      LogicStep(OpCalculate(P_inputs_items, "r", "divide", P_n, P_nope), P_res),
      LogicStep(OpCalculate(P_n, "r", "divide", FieldA, FieldB), P_res),
      LogicStep(OpCalculate(P_items, "r", "add", FieldA, FieldB), P_res),
      LogicStep(OpCalculate(P_inputs_items, "a", "subtract", P_n, FieldB), P_items),
      LogicStep(OpCalculate(P_items, "r", "multiply", FieldA, P_k), P_res) }

\* The items of the inputs: a divisor that is a number, one that is 0, one
\* that is missing, one that is no number, and an element that is no object
ArithItems ==
    << Obj([k \in {"a", "b"} |-> IF k = "a" THEN Int64(6) ELSE Int64(3)]),
       Obj([k \in {"a", "b"} |-> IF k = "a" THEN Int64(5) ELSE Int64(0)]),
       Obj([k \in {"a"} |-> Int64(4)]),
       Obj([k \in {"a", "b"} |-> IF k = "a" THEN Int64(2) ELSE Str("x")]),
       Int64(7) >>

ArithInputs ==
    { Obj([k \in {"n", "k", "z", "zf", "s", "items"} |->
             CASE k = "n"  -> Int64(6)
               [] k = "k"  -> Int64(3)
               [] k = "z"  -> Int64(0)
               [] k = "zf" -> JsonF64(F(0))
               [] k = "s"  -> Str("str")
               [] k = "items" -> Arr(ArithItems)]) }

InitArith == InitWith(ProgramsOf({SchemaTotal}, ArithPool, ArithSteps), ArithInputs)

SpecArith == InitArith /\ [][Next]_vars

\* The operation of step j
OpAt(j) == Steps[j].operation

\* In document doc the path resolves, exactly or under inputs, to the number 0.
ResolvesToZero(doc, path) ==
    /\ get(doc, path).ok
    /\ get(doc, path).v.t = "num"
    /\ get(doc, path).v.n = 0

---------------------------------------------------------------------------
(* C9 *)

\* C9: a scalar Divide step whose b resolves to the number 0 fails with the
\* division-by-zero error, whatever a is (resolving or not, a number or
\* not); nothing is written: the document stays as it was before the step
\* and execute returns that error.
C9_DivideByZeroFirst ==
    \A j \in 1..Len(log) :
        (OpAt(j).op = "divide" /\ ResolvesToZero(log[j].pre, OpAt(j).b)) =>
            /\ log[j].res = Err("DivisionByZero", OpAt(j).b)
            /\ j = Len(log)
            /\ data = log[j].pre
            /\ result = Returned(log[j].res)

\* After a step that wrote, a Divide whose a does not resolve and whose b
\* resolves to 0 failed with the division-by-zero error.
C9_Witness ==
    /\ Len(log) = 2 /\ StepWrote(1)
    /\ OpAt(2).op = "divide"
    /\ ~get(log[2].pre, OpAt(2).a).ok
    /\ ResolvesToZero(log[2].pre, OpAt(2).b)
    /\ result = Returned(Err("DivisionByZero", OpAt(2).b))

---------------------------------------------------------------------------
(* C10 *)

\* The divisor of an element is 0: an operand starting with '/' that does not
\* resolve in the state, is no number or is 0; any other operand that is
\* missing from the element, is no number or is 0.
DivisorIsZero(doc, item, b_field) ==
    IF StartsWithSlash(b_field)
    THEN \/ ~get(doc, b_field).ok
         \/ get(doc, b_field).v.t # "num"
         \/ get(doc, b_field).v.n = 0
    ELSE \/ ~MemberAt(item, KeyOf(b_field)).some
         \/ MemberAt(item, KeyOf(b_field)).v.t # "num"
         \/ MemberAt(item, KeyOf(b_field)).v.n = 0

\* What Calculate with operator divide makes of one element of the array
DividedItem(doc, item, op) ==
    IF item.t # "obj" THEN item
    ELSE IF DivisorIsZero(doc, item, op.b_field)
    THEN Obj((op.output_field :> JsonF64(F(0))) @@ item.m)
    ELSE Obj((op.output_field :>
                 JsonF64(FDiv(resolve_operand(doc, item, op.a_field),
                              resolve_operand(doc, item, op.b_field)))) @@ item.m)

\* C10: a Calculate step with operator divide on a list path that holds an
\* array does not fail; every object element whose divisor is 0 (b_field
\* missing or no number among the cases) gets output_field = 0, every other
\* object element gets a / b, and the step's result is written.
C10_CalculateDivideByZero ==
    \A j \in 1..Len(log) :
        (/\ OpAt(j).op = "calculate"
         /\ OpAt(j).operator = "divide"
         /\ get_array(log[j].pre, OpAt(j).list_path).ok) =>
            LET src == get_array(log[j].pre, OpAt(j).list_path).v
            IN  /\ log[j].res.ok
                /\ log[j].res.v.t = "arr"
                /\ Len(log[j].res.v.a) = Len(src)
                /\ \A i \in 1..Len(src) :
                      log[j].res.v.a[i] = DividedItem(log[j].pre, src[i], OpAt(j))
                /\ StepWrote(j)

\* A Calculate divide step ran on elements with a divisor that is a number,
\* is 0, is missing and is no number: the three latter got 0, the first 6 / 3.
C10_Witness ==
    /\ Len(log) >= 1 /\ StepWrote(1)
    /\ OpAt(1) = OpCalculate(P_inputs_items, "r", "divide", FieldA, FieldB)
    /\ Member(log[1].res.v.a[1], "r") = Some(JsonF64(F(2)))
    /\ Member(log[1].res.v.a[2], "r") = Some(JsonF64(F(0)))
    /\ Member(log[1].res.v.a[3], "r") = Some(JsonF64(F(0)))
    /\ Member(log[1].res.v.a[4], "r") = Some(JsonF64(F(0)))
    /\ log[1].res.v.a[5] = Int64(7)
    /\ get(data, P_res) = log[1].res

---------------------------------------------------------------------------
(* Aggregations: programs of Sum, Min, Max and Count steps                   *)

AggSteps == 2

\* Sum, Min and Max; kind is "sum", "min" or "max", field an Option
OpFold(kind, list_path, field) ==
    [op |-> kind, list_path |-> list_path, field |-> field]

OpCount(list_path) == [op |-> "count", list_path |-> list_path]

P_empty == <<Slash, "empty">>
P_mixed == <<Slash, "mixed">>
P_strs == <<Slash, "strs">>
P_total == <<Slash, "total">>
P_lo == <<Slash, "lo">>
P_hi == <<Slash, "hi">>
P_cnt == <<Slash, "cnt">>

AggPool ==
    { LogicStep(OpFold("sum", P_inputs_items, Some("value")), P_total),
      LogicStep(OpFold("sum", P_mixed, None), P_total),
      LogicStep(OpFold("sum", P_empty, None), P_total),
      LogicStep(OpFold("sum", P_lo, None), P_total),
      LogicStep(OpFold("min", P_empty, None), P_lo),
      LogicStep(OpFold("max", P_empty, None), P_hi),
      LogicStep(OpFold("min", P_strs, None), P_lo),
      LogicStep(OpFold("max", P_items, Some("nope")), P_hi),
      LogicStep(OpFold("min", P_mixed, None), P_lo),
      LogicStep(OpFold("max", P_items, Some("value")), P_hi),
      LogicStep(OpGet(P_lo), P_out),
      LogicStep(OpCount(P_mixed), P_cnt) }

AggInputs ==
    { Obj([k \in {"items", "empty", "mixed", "strs"} |->
             CASE k = "items" ->
                    Arr(<< Obj([j \in {"value"} |-> Int64(10)]),
                           Obj([j \in {"value"} |-> Int64(5)]) >>)
               [] k = "empty" -> Arr(<<>>)
               [] k = "mixed" ->
                    Arr(<< Int64(3), Str("x"), Obj([j \in {"value"} |-> Int64(2)]),
                           Int64(-4), Null >>)
               [] k = "strs"  -> Arr(<<Str("a"), Bool(TRUE)>>)]) }

AggSchemas == { SchemaOf({"total"}), SchemaOf({"lo", "hi", "out"}) }

InitAgg == InitWith(ProgramsOf(AggSchemas, AggPool, AggSteps), AggInputs)

SpecAgg == InitAgg /\ [][Next]_vars

\* The numbers a Sum, Min or Max step folds: of each element of the array the
\* element itself, or its named field, when that is a number
NumbersOf(arr, field) ==
    LET idx == {i \in 1..Len(arr) : ItemNumber(arr[i], field).some}
    IN  [i \in idx |-> ItemNumber(arr[i], field).v]

\* Step j is a Min / Max step on an array without any numeric entry.
FoldsNothing(j, kind) ==
    /\ j \in 1..Len(log)
    /\ OpAt(j).op = kind
    /\ get_array(log[j].pre, OpAt(j).list_path).ok
    /\ DOMAIN NumbersOf(get_array(log[j].pre, OpAt(j).list_path).v, OpAt(j).field) = {}

---------------------------------------------------------------------------
(* C11 *)

\* C11 (as claimed): a Min step over an array that is empty or has no
\* numeric entry succeeds with the number +infinity as its result value, a
\* Max step with -infinity, and that value is what the step writes.
C11_MinMaxOfNothingIsInfinite ==
    \A j \in 1..Len(log) :
        /\ FoldsNothing(j, "min") =>
              /\ log[j].res.ok
              /\ AsF64(log[j].res.v) = Some(PosInf)
        /\ FoldsNothing(j, "max") =>
              /\ log[j].res.ok
              /\ AsF64(log[j].res.v) = Some(NegInf)

\* What the program does instead: both steps succeed with null, and null is
\* what is written and what later steps read.
C11_MinMaxOfNothingIsNull ==
    \A j \in 1..Len(log) :
        (FoldsNothing(j, "min") \/ FoldsNothing(j, "max")) =>
            /\ log[j].res = Ok(Null)
            /\ StepWrote(j)
            /\ Pointer(log[j].wr.v, Steps[j].output_path) = Some(Null)

\* A Min over the empty array wrote null to "/lo" and a later Get read it.
C11_NullWitness ==
    /\ Len(log) = 2
    /\ FoldsNothing(1, "min")
    /\ OpAt(2) = OpGet(P_lo)
    /\ log[2].res = Ok(Null)

---------------------------------------------------------------------------
(* C14 *)

\* The value a Sum step looks at in an element: the element itself when no
\* field is given, else the element's member of that name (if there is one)
Summand(item, field) ==
    IF ~field.some THEN Some(item)
    ELSE IF item.t = "obj" /\ field.v \in DOMAIN item.m THEN Some(item.m[field.v])
    ELSE None

IsNumber(opt) == opt.some /\ opt.v.t = "num"

\* The sum of the numeric summands of arr[1..n], the others skipped
RECURSIVE SumUpTo(_, _, _)
SumUpTo(arr, field, n) ==
    IF n = 0 THEN F(0)
    ELSE IF IsNumber(Summand(arr[n], field))
         THEN FAdd(SumUpTo(arr, field, n - 1),
                   Frac(Summand(arr[n], field).v.n, Summand(arr[n], field).v.d))
         ELSE SumUpTo(arr, field, n - 1)

\* The one-step program of the end-to-end example
SumExample ==
    [definition |-> [output_schema |-> SchemaOf({"total"})],
     steps |-> <<LogicStep(OpFold("sum", P_inputs_items, Some("value")), P_total)>>]

\* C14: a Sum step on an array gives the number that is the sum of the
\* numeric values of its elements (the element, or the named field), the
\* missing and non-numeric ones skipped, and 0 for the empty array; the
\* example program returns the object with the one key total and the number
\* 15 (the f64 15.0) as its value.
C14_SumOfNumericEntries ==
    /\ \A j \in 1..Len(log) :
          (OpAt(j).op = "sum" /\ get_array(log[j].pre, OpAt(j).list_path).ok) =>
              LET arr == get_array(log[j].pre, OpAt(j).list_path).v
              IN  /\ log[j].res.ok
                  /\ AsF64(log[j].res.v) = Some(SumUpTo(arr, OpAt(j).field, Len(arr)))
                  /\ arr = <<>> => AsF64(log[j].res.v) = Some(F(0))
    /\ (program = SumExample /\ result.status = "returned") =>
          /\ result.r.ok
          /\ result.r.v.t = "obj"
          /\ DOMAIN result.r.v.m = {"total"}
          /\ AsF64(result.r.v.m["total"]) = Some(F(15))
          /\ result.r.v = Obj("total" :> JsonF64(F(15)))

\* The example program returned; before, Sum steps ran on the empty array
\* and on an array with entries that are skipped.
C14_Witness ==
    /\ program = SumExample
    /\ result = Returned(Ok(Obj("total" :> JsonF64(F(15)))))
    /\ get(data, P_total) = Ok(JsonF64(F(15)))

\* A Sum over an array with non-numeric entries skipped them: 3 + (-4).
C14_SkipWitness ==
    /\ Len(log) = 2
    /\ StepWrote(1) /\ OpAt(1) = OpFold("sum", P_empty, None)
    /\ log[1].res = Ok(JsonF64(F(0)))
    /\ StepWrote(2) /\ OpAt(2) = OpFold("sum", P_mixed, None)
    /\ log[2].res = Ok(JsonF64(F(-1)))

---------------------------------------------------------------------------
(* Lists: programs of Sort, FilterNumeric and Pluck steps                    *)

ListSteps == 2

OpSort(list_path, field, descending) ==
    [op |-> "sort", list_path |-> list_path, field |-> field,
     descending |-> descending]

OpFilterNumeric(list_path, field, operator, value) ==
    [op |-> "filter_numeric", list_path |-> list_path, field |-> field,
     operator |-> operator, value |-> value]

OpPluck(path, key) == [op |-> "pluck", path |-> path, key |-> key]

P_rows == <<Slash, "rows">>
P_inputs_rows == <<Slash, "inputs", Slash, "rows">>
P_abc == <<Slash, "abc">>
P_inputs_abc == <<Slash, "inputs", Slash, "abc">>
P_nums == <<Slash, "nums">>
P_sorted == <<Slash, "sorted">>
P_kept == <<Slash, "kept">>
P_temp_d == <<Slash, "temp", Slash, "d">>
P_inputs_abc_0 == <<Slash, "inputs", Slash, "abc", Slash, "0">>

\* An object with the number v and the string id
Row(v, id) == Obj([k \in {"v", "id"} |-> IF k = "v" THEN v ELSE Str(id)])

ListPool ==
    { LogicStep(OpSort(P_inputs_rows, "v", FALSE), P_sorted),
      LogicStep(OpSort(P_rows, "v", TRUE), P_sorted),
      LogicStep(OpSort(P_inputs_abc, "v", FALSE), P_abc),
      LogicStep(OpSort(P_abc, "v", TRUE), P_temp_d),
      LogicStep(OpSort(P_sorted, "id", FALSE), P_rows),
      LogicStep(OpSort(P_n, "v", FALSE), P_out),
      LogicStep(OpSort(P_nope, "v", TRUE), P_out),
      LogicStep(OpFilterNumeric(P_rows, Some("v"), "gt", F(1)), P_kept),
      LogicStep(OpFilterNumeric(P_sorted, Some("v"), "lte", F(1)), P_rows),
      LogicStep(OpFilterNumeric(P_nums, None, "eq", F(2)), P_kept),
      LogicStep(OpFilterNumeric(P_nums, None, "lt", Frac(5, 2)), P_nums),
      LogicStep(OpFilterNumeric(P_nums, None, "gte", F(2)), P_kept),
      LogicStep(OpFilterNumeric(P_n, None, "gt", F(0)), P_out),
      LogicStep(OpPluck(P_rows, "v"), P_nums),
      LogicStep(OpCalculate(P_rows, "w", "add", <<"v">>, <<"v">>), P_rows),
      LogicStep(OpSort(P_inputs_abc, "v", TRUE), P_inputs_abc_0),
      LogicStep(OpFilterNumeric(P_abc, Some("v"), "gte", F(2)), P_temp_a) }

ListInputs ==
    { Obj([k \in {"rows", "abc", "nums", "n"} |->
             CASE k = "rows" ->
                    Arr(<< Row(Int64(3), "a"), Row(Int64(1), "b"),
                           Row(JsonF64(Frac(5, 2)), "c"), Row(Int64(1), "d"),
                           Obj([j \in {"id"} |-> Str("e")]),
                           Row(Str("x"), "f"), Int64(7), Row(Int64(-2), "g"),
                           Row(Int64(0), "h") >>)
               [] k = "abc"  ->
                    Arr(<< Obj([j \in {"v"} |-> Int64(3)]),
                           Obj([j \in {"v"} |-> Int64(1)]),
                           Obj([j \in {"v"} |-> Int64(2)]) >>)
               [] k = "nums" ->
                    Arr(<< Int64(2), JsonF64(F(2)), Str("2"), Int64(3), Null,
                           JsonF64(Frac(5, 2)), Int64(1) >>)
               [] k = "n"    -> Int64(6)]) }

InitList == InitWith(ProgramsOf({SchemaTotal}, ListPool, ListSteps), ListInputs)

SpecList == InitList /\ [][Next]_vars

\* The array a list step j reads (when its list path holds one)
SourceOf(j) == get_array(log[j].pre, OpAt(j).list_path)

\* The number an element is sorted by: its field when that is a number, else 0
KeyBy(item, field) ==
    IF item.t = "obj" /\ field \in DOMAIN item.m /\ item.m[field].t = "num"
    THEN Frac(item.m[field].n, item.m[field].d)
    ELSE F(0)

\* The place of src[i] in the stable ascending order: behind the elements
\* of smaller key and behind the earlier elements of equal key
StablePlace(src, field, i) ==
    1 + Cardinality({j \in 1..Len(src) :
                        \/ FLess(KeyBy(src[j], field), KeyBy(src[i], field))
                        \/ j < i /\ KeyBy(src[j], field) = KeyBy(src[i], field)})

---------------------------------------------------------------------------
(* C12 *)

\* C12: an ascending Sort step on an array gives a permutation of it in
\* non-decreasing order of the field's number (0 when missing or no number),
\* elements of equal key in their input order; values [3,1,2] give [1,2,3].
C12_SortAscendingStable ==
    \A j \in 1..Len(log) :
        (OpAt(j).op = "sort" /\ ~OpAt(j).descending /\ SourceOf(j).ok) =>
            LET src == SourceOf(j).v
                f == OpAt(j).field
            IN  /\ log[j].res.ok
                /\ log[j].res.v.t = "arr"
                /\ Len(log[j].res.v.a) = Len(src)
                /\ \A i \in 1..Len(src) :
                      log[j].res.v.a[StablePlace(src, f, i)] = src[i]
                /\ \A i \in 1..(Len(src) - 1) :
                      ~FLess(KeyBy(log[j].res.v.a[i + 1], f),
                             KeyBy(log[j].res.v.a[i], f))
                /\ src = <<Obj("v" :> Int64(3)), Obj("v" :> Int64(1)),
                           Obj("v" :> Int64(2))>> =>
                      log[j].res.v.a = <<Obj("v" :> Int64(1)), Obj("v" :> Int64(2)),
                                         Obj("v" :> Int64(3))>>

\* The rows were sorted ascending: -2 first, then the four elements of key 0
\* (no field, no number, no object, 0) in their input order, then the two
\* rows of key 1 in their input order.
C12_Witness ==
    /\ Len(log) >= 1 /\ StepWrote(1)
    /\ OpAt(1) = OpSort(P_inputs_rows, "v", FALSE)
    /\ log[1].res.v.a[1] = Row(Int64(-2), "g")
    /\ log[1].res.v.a[2] = Obj("id" :> Str("e"))
    /\ log[1].res.v.a[3] = Row(Str("x"), "f")
    /\ log[1].res.v.a[4] = Int64(7)
    /\ log[1].res.v.a[5] = Row(Int64(0), "h")
    /\ log[1].res.v.a[6] = Row(Int64(1), "b")
    /\ log[1].res.v.a[7] = Row(Int64(1), "d")
    /\ log[1].res.v.a[9] = Row(Int64(3), "a")

---------------------------------------------------------------------------
(* Formatting: programs of FormatString steps                                *)

FmtSteps == 2

FormatVariable(key, path) == [key |-> key, path |-> path]

OpFormatString(template, variables) ==
    [op |-> "format_string", template |-> template, variables |-> variables]

P_name == <<Slash, "name">>
P_inputs_name == <<Slash, "inputs", Slash, "name">>
P_f == <<Slash, "f">>
P_p == <<Slash, "p">>
P_l == <<Slash, "l">>
P_o == <<Slash, "o">>
P_msg == <<Slash, "msg">>

\* "Hello {name}"
HelloName == <<"H", "e", "l", "l", "o", " ", "{", "n", "a", "m", "e", "}">>

\* "{n}{n}-{f}"
TwiceN == <<"{", "n", "}", "{", "n", "}", "-", "{", "f", "}">>

\* "{z}{l}{o}{b}"
Others == <<"{", "z", "}", "{", "l", "}", "{", "o", "}", "{", "b", "}">>

\* "{p}{n}"
PThenN == <<"{", "p", "}", "{", "n", "}">>

Key_name == <<"n", "a", "m", "e">>

VarN == FormatVariable(<<"n">>, P_n)

VarP == FormatVariable(<<"p">>, P_p)

FmtPool ==
    { LogicStep(OpFormatString(HelloName, <<FormatVariable(Key_name, P_inputs_name)>>), P_out),
      LogicStep(OpFormatString(HelloName, <<FormatVariable(Key_name, P_name)>>), P_out),
      LogicStep(OpFormatString(HelloName, <<FormatVariable(Key_name, P_nope)>>), P_out),
      LogicStep(OpFormatString(HelloName, <<FormatVariable(Key_name, P_msg)>>), P_out),
      LogicStep(OpFormatString(HelloName, <<>>), P_msg),
      LogicStep(OpFormatString(TwiceN, <<VarN, FormatVariable(<<"f">>, P_f)>>), P_msg),
      LogicStep(OpFormatString(TwiceN, <<FormatVariable(<<"f">>, P_nope), VarN>>), P_msg),
      LogicStep(OpFormatString(Others,
                   << FormatVariable(<<"z">>, P_z), FormatVariable(<<"l">>, P_l),
                      FormatVariable(<<"o">>, P_o), FormatVariable(<<"b">>, P_b),
                      FormatVariable(<<"x">>, P_n) >>), P_msg),
      LogicStep(OpFormatString(PThenN, <<VarP, VarN>>), P_msg),
      LogicStep(OpFormatString(PThenN, <<VarN, VarP>>), P_msg),
      LogicStep(OpConstant(CString(<<"B", "o", "b">>)), P_name),
      LogicStep(OpConstant(CNumber(Frac(-5, 4))), P_n) }

FmtInputs ==
    { Obj([k \in {"name", "n", "f", "b", "z", "l", "o", "p"} |->
             CASE k = "name" -> Str(<<"A", "n", "n">>)
               [] k = "n" -> Int64(15)
               [] k = "f" -> JsonF64(Frac(5, 2))
               [] k = "b" -> Bool(TRUE)
               [] k = "z" -> Null
               [] k = "l" -> Arr(<<Int64(1), Str(<<"a">>), Arr(<<>>)>>)
               [] k = "o" -> Obj("k" :> JsonF64(F(2)))
               [] k = "p" -> Str(<<"{", "n", "}">>)]) }

InitFmt == InitWith(ProgramsOf({SchemaTotal}, FmtPool, FmtSteps), FmtInputs)

SpecFmt == InitFmt /\ [][Next]_vars

\* The variables of the list whose path resolves in the document
Resolving(variables, doc) == SelectSeq(variables, LAMBDA var : get(doc, var.path).ok)

\* The text form of a value: a string as it is, a number and a boolean as
\* written, any other value as its JSON text
TextForm(doc, path) ==
    IF get(doc, path).v.t = "str" THEN get(doc, path).v.s
    ELSE JsonText(get(doc, path).v)

\* The text with every occurrence of {key} replaced, for the variables of
\* the list one after the other (all of them resolving)
RECURSIVE Replaced(_, _, _)
Replaced(text, variables, doc) ==
    IF variables = <<>> THEN text
    ELSE Replaced(ReplaceAll(text, <<"{">> \o Head(variables).key \o <<"}">>,
                             TextForm(doc, Head(variables).path)),
                  Tail(variables), doc)

\* The number of places where pat occurs in the text
Occurrences(text, pat) ==
    Cardinality({i \in 1..(Len(text) - Len(pat) + 1) :
                    SubSeq(text, i, i + Len(pat) - 1) = pat})

HasBrace(text) == \E i \in 1..Len(text) : text[i] \in {"{", "}"}

---------------------------------------------------------------------------
(* C13 *)

\* C13: a FormatString step never fails; its result is the template in which,
\* for each variable in turn whose path resolves under get (exactly or under
\* inputs), every occurrence of {key} is replaced by the text form of the
\* value; a variable whose path does not resolve changes nothing.  When no
\* inserted text holds a brace, no placeholder of a resolving variable is
\* left and every placeholder of a variable that does not resolve occurs as
\* often as in the template.  "Hello {name}" gives "Hello Ann" when name
\* resolves to "Ann" and stays "Hello {name}" when it does not resolve.
C13_FormatString ==
    \A j \in 1..Len(log) :
        OpAt(j).op = "format_string" =>
            LET doc == log[j].pre
                vs == OpAt(j).variables
                rs == Resolving(vs, doc)
            IN  /\ log[j].res.ok
                /\ log[j].res.v.t = "str"
                /\ log[j].res.v.s = Replaced(OpAt(j).template, rs, doc)
                /\ rs = <<>> => log[j].res.v.s = OpAt(j).template
                /\ (\A i \in 1..Len(rs) : ~HasBrace(TextForm(doc, rs[i].path))) =>
                      \A i \in 1..Len(vs) :
                         IF get(doc, vs[i].path).ok
                         THEN Occurrences(log[j].res.v.s, Placeholder(vs[i].key)) = 0
                         ELSE Occurrences(log[j].res.v.s, Placeholder(vs[i].key))
                                = Occurrences(OpAt(j).template, Placeholder(vs[i].key))
                /\ (OpAt(j).template = HelloName /\ Len(vs) = 1 /\ vs[1].key = Key_name) =>
                      /\ get(doc, vs[1].path) = Ok(Str(<<"A", "n", "n">>)) =>
                            log[j].res.v.s = <<"H", "e", "l", "l", "o", " ", "A", "n", "n">>
                      /\ ~get(doc, vs[1].path).ok => log[j].res.v.s = HelloName

\* "Hello {name}" with name found through the inputs fallback gave "Hello
\* Ann", and then, with a variable that does not resolve, stayed as it is.
C13_Witness ==
    /\ Len(log) = 2 /\ StepWrote(1) /\ StepWrote(2)
    /\ OpAt(1) = OpFormatString(HelloName, <<FormatVariable(Key_name, P_name)>>)
    /\ log[1].res = Ok(Str(<<"H", "e", "l", "l", "o", " ", "A", "n", "n">>))
    /\ OpAt(2) = OpFormatString(HelloName, <<FormatVariable(Key_name, P_nope)>>)
    /\ log[2].res = Ok(Str(HelloName))

\* Numbers, null, an array, an object and a boolean were put in as text:
\* "{n}{n}-{f}" gave "1515-2.5".
C13_TextWitness ==
    /\ Len(log) = 2
    /\ log[1].res = Ok(Str(<<"1", "5", "1", "5", "-", "2", ".", "5">>))
    /\ log[2].res = Ok(Str(<<"n", "u", "l", "l", "[", "1", ",", "\"", "a", "\"", ",", "[", "]", "]", "{", "\"", "k", "\"", ":", "2", ".", "0", "}", "t", "r", "u", "e">>))

---------------------------------------------------------------------------
(* Several execute calls on one program, interleaved step by step            *)

CallSteps == 2

NCalls == 2

P_y == <<Slash, "y">>

CallPool ==
    { LogicStep(OpConstant(CNumber(F(7))), P_x),
      LogicStep(OpGet(P_x), P_out),
      LogicStep(OpGet(P_y), P_temp_a),
      LogicStep(OpGet(P_temp_a), P_x) }

CallInputs ==
    { Obj([k \in {"x"} |-> Int64(1)]),
      Obj([k \in {"x", "y"} |-> IF k = "x" THEN Int64(2) ELSE Int64(3)]) }

InitConcurrent ==
    InitCalls(ProgramsOf({SchemaTotal}, CallPool, CallSteps), CallInputs, NCalls)

SpecCalls == InitConcurrent /\ [][NextCalls]_vars

Returns(c) == calls[c].result.status = "returned"

\* The document of execute(prog, in) after its first k steps, all successful
RECURSIVE DocAfter(_, _, _)
DocAfter(prog, in, k) ==
    IF k = 0 THEN RuntimeState_new(in)
    ELSE set(DocAfter(prog, in, k - 1), prog.steps[k].output_path,
             exec_op(prog.steps[k].operation, DocAfter(prog, in, k - 1)).v).v

---------------------------------------------------------------------------
(* C15 *)

C15_ErrorWitness ==
    /\ calls[1].inputs = calls[2].inputs
    /\ Returns(1) /\ Returns(2)
    /\ ~calls[1].result.r.ok
    /\ calls[1].pc = 2
    /\ calls[1].result = calls[2].result

---------------------------------------------------------------------------
(* C16 *)

\* Every call is where it would be if it ran alone: its document is the one
\* its own inputs and its own successful steps give, and what it returned
\* is what execute gives for the program and its inputs.
CallsIndependent ==
    \A c \in DOMAIN calls :
        /\ calls[c].data = DocAfter(program, calls[c].inputs, calls[c].pc - 1)
        /\ Returns(c) => calls[c].result.r = execute(program, calls[c].inputs)

\* C16: execute calls on one program, with the same or different inputs,
\* interleaved step by step: each works on a state of its own, which no
\* write of another call reaches, each returns what it returns alone, and
\* the program they share is never modified.
C16_CallsIndependent ==
    /\ []CallsIndependent
    /\ [][program' = program]_vars

\* Two calls on different inputs in the middle of the program, one step
\* apart, each with a write of its own; with these inputs they end differently.
C16_Witness ==
    /\ Len(program.steps) = 2
    /\ calls[1].inputs # calls[2].inputs
    /\ calls[1].pc = 3 /\ ~Returns(1)
    /\ calls[2].pc = 2 /\ ~Returns(2)
    /\ calls[1].data # RuntimeState_new(calls[1].inputs)
    /\ calls[2].data # RuntimeState_new(calls[2].inputs)
    /\ execute(program, calls[1].inputs) # execute(program, calls[2].inputs)

---------------------------------------------------------------------------
(* C17 *)

\* The document is an object with the root keys inputs and temp.
HasSections(doc) == doc.t = "obj" /\ {"inputs", "temp"} \subseteq DOMAIN doc.m

\* C17 (as claimed): in every state reachable during execute, the fresh one
\* and the one after any sequence of successful steps, the working document
\* is an object that has the root keys inputs and temp.
C17_StateShape == HasSections(data)

\* What holds instead: the document keeps its shape as long as no step wrote
\* to the empty path, which names the document itself.
C17_StateShapeUnlessRootWritten ==
    (\A j \in 1..Len(log) : StepWrote(j) => Steps[j].output_path # P_root)
        => HasSections(data)

\* A step wrote an array to the empty path: the document is that array.
C17_RootWitness ==
    /\ Len(log) = 1 /\ StepWrote(1)
    /\ Steps[1].output_path = P_root
    /\ data.t = "arr"

---------------------------------------------------------------------------
(* C18 *)

\* The document with value v at the location toks and nothing else changed;
\* an object on the way that is missing is created.
RECURSIVE Put(_, _, _)
Put(doc, toks, v) ==
    IF toks = <<>> THEN v
    ELSE IF doc.t = "arr"
    THEN Arr([doc.a EXCEPT ![IndexTokens[Head(toks)] + 1] = Put(@, Tail(toks), v)])
    ELSE Obj((Head(toks) :>
                 Put(IF Head(toks) \in DOMAIN doc.m THEN doc.m[Head(toks)]
                     ELSE Obj(EmptyMap),
                     Tail(toks), v)) @@ doc.m)

\* The location of the array a list step reads: the list path itself, or the
\* same path under inputs when the document has nothing at the path
SourceLoc(doc, list_path) ==
    IF Pointer(doc, list_path).some THEN Tokens(list_path)
    ELSE <<"inputs">> \o Tokens(list_path)

\* C18: a step that fails leaves the document as it was (evaluating the
\* operation changes nothing); a successful step whose output_path begins
\* with "/" changes the value at output_path and nothing else, creating at
\* most that root key or one section object: every other root key stays as
\* it was.  After a Calculate, Sort or FilterNumeric step the source array
\* is unchanged unless output_path addresses it.
C18_StepFrame ==
    \A j \in 1..Len(log) :
        /\ StepFailed(j) => data = log[j].pre
        /\ (StepWrote(j) /\ StartsWithSlash(Steps[j].output_path)) =>
              LET pre == log[j].pre
                  post == log[j].wr.v
                  toks == Tokens(Steps[j].output_path)
              IN  /\ post = Put(pre, toks, log[j].res.v)
                  /\ Pointer(post, Steps[j].output_path) = Some(log[j].res.v)
                  /\ Len(toks) >= 3 => Pointer(pre, Steps[j].output_path).some
                  /\ pre.t = "obj" =>
                        /\ post.t = "obj"
                        /\ DOMAIN post.m = DOMAIN pre.m \cup {toks[1]}
                        /\ \A k \in DOMAIN pre.m \ {toks[1]} : post.m[k] = pre.m[k]
                  /\ (/\ OpAt(j).op \in {"calculate", "sort", "filter_numeric"}
                      /\ ~Overlap(toks, SourceLoc(pre, OpAt(j).list_path))) =>
                        Walk(post, SourceLoc(pre, OpAt(j).list_path))
                           = Walk(pre, SourceLoc(pre, OpAt(j).list_path))

\* A Sort step wrote into the temp section next to what an earlier step had
\* put there: both are in the section, the rows it sorted are as they were.
C18_Witness ==
    /\ Len(log) = 2 /\ StepWrote(1) /\ StepWrote(2)
    /\ Steps[1].output_path = P_temp_a
    /\ Steps[2].output_path = P_temp_d
    /\ OpAt(2).op = "sort"
    /\ DOMAIN data.m["temp"].m = {"a", "d"}
    /\ data.m["temp"].m["a"] = log[1].res.v
    /\ data.m["inputs"] = inputs

---------------------------------------------------------------------------
(* C19 *)

P_escaped == <<Slash, "temp~1a">>
P_a_escaped == <<Slash, "a", Slash, "temp~1a">>

\* The paths of PathUniverse and two paths with an escape in a segment
RoundTripPaths == PathUniverse \cup {P_escaped, P_a_escaped}

\* On document doc: if set(path, v) succeeds, get(path) right after it
\* succeeds and gives v.
RoundTrip(doc, path, v) ==
    set(doc, path, v).ok => get(set(doc, path, v).v, path) = Ok(v)

\* C19 (as claimed): in every reachable state, for every path string p and
\* every value v, if set(p, v) succeeds then get(p) right after it succeeds
\* and returns v.
C19_RoundTrip ==
    \A path \in RoundTripPaths : \A v \in Values : RoundTrip(data, path, v)

\* The path has no escape in a segment.
Unescaped(path) == \A i \in 1..Len(path) : path[i] \notin DOMAIN EscapedTokens

\* What holds instead: the round trip for the paths that are pointers (empty
\* or starting with '/') and have no escape in a segment.
C19_RoundTripPlainPointers ==
    \A path \in RoundTripPaths : \A v \in Values :
        (IsPointer(path) /\ Unescaped(path)) => RoundTrip(data, path, v)

\* set succeeds on a path with text before the first separator and get fails
\* on it: the value is at the root key a.
C19_LostWitness ==
    /\ set(data, <<"q", Slash, "a">>, Int64(3)).ok
    /\ Member(set(data, <<"q", Slash, "a">>, Int64(3)).v, "a") = Some(Int64(3))
    /\ ~get(set(data, <<"q", Slash, "a">>, Int64(3)).v, <<"q", Slash, "a">>).ok
    /\ set(data, P_escaped, Int64(3)).ok
    /\ ~get(set(data, P_escaped, Int64(3)).v, P_escaped).ok
    /\ Len(log) >= 1

---------------------------------------------------------------------------
(* Operands: programs of every operation on operands that are missing, of    *)
(* the wrong kind, or as required                                            *)

OpsSteps == 2

\* Add, Subtract and Multiply; operator is "add", "subtract" or "multiply"
OpArith(operator, a, b) == [op |-> operator, a |-> a, b |-> b]

ScalarOps == ArithOps \cup {"divide"}

ArrayOps == {"calculate", "sum", "count", "min", "max", "pluck", "sort",
             "filter_numeric"}

\* The array operation of the given kind on the list path
ArrayOp(kind, list_path) ==
    CASE kind = "calculate" -> OpCalculate(list_path, "r", "add", FieldA, FieldB)
      [] kind \in {"sum", "min", "max"} -> OpFold(kind, list_path, None)
      [] kind = "count" -> OpCount(list_path)
      [] kind = "pluck" -> OpPluck(list_path, "a")
      [] kind = "sort"  -> OpSort(list_path, "a", FALSE)
      [] kind = "filter_numeric" -> OpFilterNumeric(list_path, None, "gt", F(0))

OpsPool ==
    {LogicStep(OpArith(o, P_n, P_nope), P_out) : o \in ScalarOps}
    \cup {LogicStep(OpArith(o, P_s, P_n), P_out) : o \in ScalarOps}
    \cup {LogicStep(OpArith(o, P_n, P_k), P_k) : o \in ScalarOps}
    \cup {LogicStep(OpArith(o, P_items, P_z), P_out) : o \in ScalarOps}
    \cup {LogicStep(ArrayOp(kind, P_nope), P_out) : kind \in ArrayOps}
    \cup {LogicStep(ArrayOp(kind, P_k), P_out) : kind \in ArrayOps}
    \cup {LogicStep(ArrayOp(kind, P_items), P_res) : kind \in ArrayOps}
    \cup {LogicStep(OpConstant(CString(<<"t">>)), P_k),
          LogicStep(OpConstant(CNull), P_items)}

OpsInputs ==
    { Obj([k \in {"n", "k", "z", "s", "items"} |->
             CASE k = "n"  -> Int64(6)
               [] k = "k"  -> Int64(3)
               [] k = "z"  -> Int64(0)
               [] k = "s"  -> Str(<<"t">>)
               [] k = "items" -> Arr(<<Obj("a" :> Int64(2)), Int64(1)>>)]) }

InitOps == InitWith(ProgramsOf({SchemaTotal}, OpsPool, OpsSteps), OpsInputs)

SpecOps == InitOps /\ [][Next]_vars

\* In the document the path resolves under get, exactly or under inputs, to
\* a number / to an array.
NumberAt(doc, path) == get(doc, path).ok /\ get(doc, path).v.t = "num"

ArrayAt(doc, path) == get(doc, path).ok /\ get(doc, path).v.t = "arr"

\* The list path of an array operation (Pluck calls it path)
ListPathOf(op) == IF op.op = "pluck" THEN op.path ELSE op.list_path

\* Step j failed in its operation, nothing was written and execute returned
\* the operation's error.
OperationFailed(j) ==
    /\ ~log[j].res.ok
    /\ j = Len(log)
    /\ data = log[j].pre
    /\ result = Returned(log[j].res)

---------------------------------------------------------------------------
(* C20 *)

\* C20: an Add, Subtract, Multiply or Divide step one of whose operand paths
\* does not resolve under get, or resolves to a value that is no number,
\* fails and writes nothing (no operand counts as 0); a Calculate, Sum,
\* Count, Min, Max, Pluck, Sort or FilterNumeric step whose list path does
\* not resolve, or holds no array, fails and writes nothing.
C20_OperandsRequired ==
    \A j \in 1..Len(log) :
        /\ (/\ OpAt(j).op \in ScalarOps
            /\ ~(NumberAt(log[j].pre, OpAt(j).a) /\ NumberAt(log[j].pre, OpAt(j).b)))
              => OperationFailed(j)
        /\ (/\ OpAt(j).op \in ArrayOps
            /\ ~ArrayAt(log[j].pre, ListPathOf(OpAt(j))))
              => OperationFailed(j)

\* After a step that made k a string, a Multiply with k as its second
\* operand failed on it; execute returned that error.
C20_Witness ==
    /\ Len(log) = 2 /\ StepWrote(1)
    /\ OpAt(2) = OpArith("multiply", P_n, P_k)
    /\ get(log[2].pre, P_k) = Ok(Str(<<"t">>))
    /\ result = Returned(Err("NotANumber", P_k))
    /\ data = log[2].pre

\* After a step that made items null, a Sort of items failed.
C20_ArrayWitness ==
    /\ Len(log) = 2 /\ StepWrote(1)
    /\ OpAt(2).op = "sort"
    /\ get(log[2].pre, P_items) = Ok(Null)
    /\ result = Returned(Err("NotAnArray", P_items))

---------------------------------------------------------------------------
(* C21 *)

\* The number a value counts as in Calculate: itself when it is a number,
\* else 0 (opt is the value found, if any)
NumberOrZero(opt) ==
    IF opt.some /\ opt.v.t = "num" THEN Frac(opt.v.n, opt.v.d) ELSE F(0)

\* An operand of Calculate for one element: resolved against the state when
\* it starts with '/', else read from the element
OperandOf(doc, item, target) ==
    IF StartsWithSlash(target)
    THEN NumberOrZero(IF get(doc, target).ok THEN Some(get(doc, target).v) ELSE None)
    ELSE NumberOrZero(IF Len(target) = 1 /\ target[1] \in DOMAIN item.m
                      THEN Some(item.m[target[1]]) ELSE None)

\* op(a, b); a division by 0 gives 0
Applied(operator, a, b) ==
    CASE operator = "add"      -> FAdd(a, b)
      [] operator = "subtract" -> FSub(a, b)
      [] operator = "multiply" -> FMul(a, b)
      [] operator = "divide"   -> IF b.n = 0 THEN F(0) ELSE FDiv(a, b)

\* C21: a Calculate step fails exactly when its list path does not resolve
\* to an array; otherwise its result is an array of the same length and
\* order in which every object element has output_field = op(a, b) added (a
\* and b resolved against the state when they start with '/', else read from
\* the element, 0 when missing or no number) and every other element is as
\* it was.
C21_Calculate ==
    \A j \in 1..Len(log) :
        OpAt(j).op = "calculate" =>
            /\ log[j].res.ok <=> SourceOf(j).ok
            /\ SourceOf(j).ok =>
                  LET src == SourceOf(j).v
                      out == log[j].res.v
                      op == OpAt(j)
                  IN  /\ out.t = "arr"
                      /\ Len(out.a) = Len(src)
                      /\ \A i \in 1..Len(src) :
                            IF src[i].t = "obj"
                            THEN out.a[i] =
                                   Obj((op.output_field :>
                                          JsonF64(Applied(op.operator,
                                             OperandOf(log[j].pre, src[i], op.a_field),
                                             OperandOf(log[j].pre, src[i], op.b_field))))
                                       @@ src[i].m)
                            ELSE out.a[i] = src[i]

\* A Calculate subtract with a from the state (n = 6) and b from the
\* elements: 6 - 3, 6 - 0, 6 - 0 for the missing b, 6 - 0 for the string b;
\* the element that is no object stays 7.
C21_Witness ==
    /\ Len(log) >= 1 /\ StepWrote(1)
    /\ OpAt(1) = OpCalculate(P_inputs_items, "a", "subtract", P_n, FieldB)
    /\ Member(log[1].res.v.a[1], "a") = Some(JsonF64(F(3)))
    /\ Member(log[1].res.v.a[2], "a") = Some(JsonF64(F(6)))
    /\ Member(log[1].res.v.a[3], "a") = Some(JsonF64(F(6)))
    /\ Member(log[1].res.v.a[4], "a") = Some(JsonF64(F(6)))
    /\ Member(log[1].res.v.a[4], "b") = Some(Str("x"))
    /\ log[1].res.v.a[5] = Int64(7)

---------------------------------------------------------------------------
(* C22 *)

\* C22: a descending Sort step on an array gives the reverse of the stable
\* ascending order: src[i] stands at the mirror image of its stable
\* ascending place, the keys are non-increasing, elements of equal key stand
\* in the reverse of their input order, and field values [3,1,2] give
\* [3,2,1].
C22_SortDescending ==
    \A j \in 1..Len(log) :
        (OpAt(j).op = "sort" /\ OpAt(j).descending /\ SourceOf(j).ok) =>
            LET src == SourceOf(j).v
                f == OpAt(j).field
                out == log[j].res.v.a
                PlaceOf(i) == Len(src) + 1 - StablePlace(src, f, i)
            IN  /\ log[j].res.ok
                /\ log[j].res.v.t = "arr"
                /\ Len(out) = Len(src)
                /\ \A i \in 1..Len(src) : out[PlaceOf(i)] = src[i]
                /\ \A i \in 1..(Len(src) - 1) :
                      ~FLess(KeyBy(out[i], f), KeyBy(out[i + 1], f))
                /\ \A i, k \in 1..Len(src) :
                      (i < k /\ KeyBy(src[i], f) = KeyBy(src[k], f)) =>
                          PlaceOf(k) < PlaceOf(i)
                /\ src = <<Obj("v" :> Int64(3)), Obj("v" :> Int64(1)),
                           Obj("v" :> Int64(2))>> =>
                      out = <<Obj("v" :> Int64(3)), Obj("v" :> Int64(2)),
                              Obj("v" :> Int64(1))>>

\* The rows were sorted descending: 3, 5/2, then the two rows of key 1 with
\* the later one first, then the four elements of key 0 in the reverse of
\* their input order, then -2.
C22_Witness ==
    /\ Len(log) >= 1 /\ StepWrote(1)
    /\ OpAt(1) = OpSort(P_rows, "v", TRUE)
    /\ log[1].res.v.a[1] = Row(Int64(3), "a")
    /\ log[1].res.v.a[2] = Row(JsonF64(Frac(5, 2)), "c")
    /\ log[1].res.v.a[3] = Row(Int64(1), "d")
    /\ log[1].res.v.a[4] = Row(Int64(1), "b")
    /\ log[1].res.v.a[5] = Row(Int64(0), "h")
    /\ log[1].res.v.a[6] = Int64(7)
    /\ log[1].res.v.a[7] = Row(Str("x"), "f")
    /\ log[1].res.v.a[8] = Obj("id" :> Str("e"))
    /\ log[1].res.v.a[9] = Row(Int64(-2), "g")

\* The field values 3, 1, 2 were sorted descending into 3, 2, 1.
C22_ExampleWitness ==
    /\ Len(log) >= 1 /\ StepWrote(1)
    /\ OpAt(1) = OpSort(P_abc, "v", TRUE)
    /\ log[1].res.v.a = <<Obj("v" :> Int64(3)), Obj("v" :> Int64(2)),
                          Obj("v" :> Int64(1))>>

---------------------------------------------------------------------------
(* C23 *)

\* The numeric value FilterNumeric compares: the element itself, or its
\* named field, when that is a number
NumericValue(item, field) ==
    IF ~field.some
    THEN IF item.t = "num" THEN Some(Frac(item.n, item.d)) ELSE None
    ELSE IF item.t = "obj" /\ field.v \in DOMAIN item.m /\ item.m[field.v].t = "num"
         THEN Some(Frac(item.m[field.v].n, item.m[field.v].d))
         ELSE None

\* v <operator> value on fractions of positive denominator
Satisfies(operator, v, value) ==
    CASE operator = "gt"  -> v.n * value.d > value.n * v.d
      [] operator = "lt"  -> v.n * value.d < value.n * v.d
      [] operator = "eq"  -> v.n * value.d = value.n * v.d
      [] operator = "gte" -> v.n * value.d >= value.n * v.d
      [] operator = "lte" -> v.n * value.d <= value.n * v.d

\* The indices of the elements of src that a FilterNumeric op is to keep
KeptIndices(src, op) ==
    {i \in 1..Len(src) :
        /\ NumericValue(src[i], op.field).some
        /\ Satisfies(op.operator, NumericValue(src[i], op.field).v, op.value)}

\* C23: a FilterNumeric step on an array gives the elements whose numeric
\* value (the element itself or the named field) satisfies the comparison,
\* and no others, unmodified and in their original order; elements without
\* a numeric value are dropped.
C23_FilterNumeric ==
    \A j \in 1..Len(log) :
        (OpAt(j).op = "filter_numeric" /\ SourceOf(j).ok) =>
            LET src == SourceOf(j).v
                K == KeptIndices(src, OpAt(j))
                out == log[j].res.v.a
            IN  /\ log[j].res.ok
                /\ log[j].res.v.t = "arr"
                /\ Len(out) = Cardinality(K)
                /\ \A i \in K : out[Cardinality({k \in K : k <= i})] = src[i]

\* The rows were sorted ascending and then filtered by v <= 1: the row of
\* -2, the row of 0 and the two rows of 1 are kept in that order; the
\* elements of no numeric v, which sorted as 0, are dropped.
C23_Witness ==
    /\ Len(log) = 2 /\ StepWrote(1) /\ StepWrote(2)
    /\ OpAt(1) = OpSort(P_inputs_rows, "v", FALSE)
    /\ OpAt(2) = OpFilterNumeric(P_sorted, Some("v"), "lte", F(1))
    /\ log[2].res.v.a = << Row(Int64(-2), "g"), Row(Int64(0), "h"),
                           Row(Int64(1), "b"), Row(Int64(1), "d") >>

\* The numbers equal to 2 were kept as they were, integer and float; the
\* string "2" and null were dropped.
C23_ElementWitness ==
    /\ Len(log) >= 1 /\ StepWrote(1)
    /\ OpAt(1) = OpFilterNumeric(P_nums, None, "eq", F(2))
    /\ log[1].res.v.a = << Int64(2), JsonF64(F(2)) >>

---------------------------------------------------------------------------
(* C24 *)

\* The values of the top-level keys of a document
TopLevelValues(doc) == IF doc.t = "obj" THEN {doc.m[k] : k \in DOMAIN doc.m} ELSE {}

\* C24 (as claimed): in the extraction, every property name of output_schema
\* gives the same outcome looked up as a root key of the final document and
\* as the pointer path "/name", and every value of a returned map is the
\* value of a top-level key of the final document.
C24_LookupsCoincide ==
    (ReturnedAfterAllSteps /\ Props.some) =>
        /\ \A k \in DOMAIN Props.v :
              Member(data, k) = Pointer(data, KeyPath(k))
        /\ MatchedNames(data) # {} =>
              \A k \in DOMAIN result.r.v.m :
                  result.r.v.m[k] \in TopLevelValues(data)

\* C24 for property names without a separator on a document that is an
\* object: the same statement, which for these holds.
C24_LookupsCoincideFlatNames ==
    (ReturnedAfterAllSteps /\ Props.some /\ data.t = "obj"
       /\ \A k \in DOMAIN Props.v : k \notin DOMAIN CompositeNames) =>
        /\ \A k \in DOMAIN Props.v :
              Member(data, k) = Pointer(data, KeyPath(k))
        /\ MatchedNames(data) # {} =>
              \A k \in DOMAIN result.r.v.m :
                  result.r.v.m[k] \in TopLevelValues(data)

\* The property name temp/a is no root key, the pointer lookup found the
\* nested temp.a, and the returned map holds it.
C24_NestedWitness ==
    /\ ReturnedAfterAllSteps
    /\ Props.some
    /\ "temp/a" \in DOMAIN Props.v
    /\ ~Member(data, "temp/a").some
    /\ Pointer(data, KeyPath("temp/a")) = Some(Str("s"))
    /\ result.r.ok
    /\ result.r.v.m["temp/a"] = Str("s")

\* The document was replaced by an array: the property name 0 is no root
\* key, and the pointer lookup found the array's first element.
C24_ArrayWitness ==
    /\ ReturnedAfterAllSteps
    /\ Props.some
    /\ data.t = "arr"
    /\ DOMAIN Props.v = {"0"}
    /\ ~Member(data, "0").some
    /\ result.r = Ok(Obj("0" :> Int64(4)))

---------------------------------------------------------------------------
(* C25 *)

\* The variables whose placeholder stands at place i of the text
MatchingAt(text, i, variables) ==
    SelectSeq(variables,
              LAMBDA var : /\ i + Len(var.key) + 1 <= Len(text)
                           /\ SubSeq(text, i, i + Len(var.key) + 1)
                                = <<"{">> \o var.key \o <<"}">>)

\* The simultaneous substitution on the template from place i on: each
\* placeholder of the template is replaced by its variable's text, and the
\* text put in is not looked at again
RECURSIVE Simultaneous(_, _, _, _)
Simultaneous(template, i, variables, doc) ==
    IF i > Len(template) THEN <<>>
    ELSE IF MatchingAt(template, i, variables) # <<>>
         THEN TextForm(doc, MatchingAt(template, i, variables)[1].path)
              \o Simultaneous(template,
                              i + Len(MatchingAt(template, i, variables)[1].key) + 2,
                              variables, doc)
         ELSE <<template[i]>> \o Simultaneous(template, i + 1, variables, doc)

\* C25 (as claimed): the result of a FormatString step is the simultaneous
\* substitution of its resolving variables on the original template, and is
\* the same for the variables list in reverse order.
C25_Simultaneous ==
    \A j \in 1..Len(log) :
        OpAt(j).op = "format_string" =>
            LET doc == log[j].pre
                rs == Resolving(OpAt(j).variables, doc)
            IN  /\ log[j].res.v.s = Simultaneous(OpAt(j).template, 1, rs, doc)
                /\ log[j].res
                     = ExecFormatString(
                          OpFormatString(OpAt(j).template, Reverse(OpAt(j).variables)),
                          doc)

\* C25 for steps none of whose inserted texts holds a brace: the same
\* statement, which for these steps holds.
C25_SimultaneousPlainTexts ==
    \A j \in 1..Len(log) :
        OpAt(j).op = "format_string" =>
            LET doc == log[j].pre
                rs == Resolving(OpAt(j).variables, doc)
            IN  (\A i \in 1..Len(rs) : ~HasBrace(TextForm(doc, rs[i].path))) =>
                  /\ log[j].res.v.s = Simultaneous(OpAt(j).template, 1, rs, doc)
                  /\ log[j].res
                       = ExecFormatString(
                            OpFormatString(OpAt(j).template, Reverse(OpAt(j).variables)),
                            doc)

\* "{p}{n}" with p = "{n}" and n = 15: the variables in the order p, n give
\* "1515", the text put in for p having been replaced in turn; in the order
\* n, p they give "{n}15".
C25_OrderWitness ==
    /\ Len(log) = 2
    /\ OpAt(1) = OpFormatString(PThenN, <<VarP, VarN>>)
    /\ log[1].res = Ok(Str(<<"1", "5", "1", "5">>))
    /\ OpAt(2) = OpFormatString(PThenN, <<VarN, VarP>>)
    /\ log[2].res = Ok(Str(<<"{", "n", "}", "1", "5">>))

---------------------------------------------------------------------------
(* C26 *)

\* C26: set(path, value) that returns an error leaves the document as it
\* was, for every path and value on every reachable document; a set that
\* returns Ok leaves the document it returns; and a step whose write failed
\* left the document it was evaluated against.
C26_FailedSetChangesNothing ==
    /\ \A path \in PathUniverse : \A value \in Values :
          IF set(data, path, value).ok
          THEN AfterSet(data, path, value) = set(data, path, value).v
          ELSE AfterSet(data, path, value) = data
    /\ \A j \in 1..Len(log) :
          (log[j].res.ok /\ ~log[j].wr.ok) =>
              /\ j = Len(log)
              /\ data = log[j].pre

\* The write to "/a/a" went to the "/section/key" arm and failed on the
\* section a, which the first step had made an array; the document is the
\* one the first step left, and a write to "/0/a" on it creates the
\* section 0.
C26_Witness ==
    /\ Len(log) = 2
    /\ StepWrote(1)
    /\ Steps[1].output_path = P_a
    /\ Steps[2].output_path = P_a_a
    /\ log[2].res.ok
    /\ log[2].wr = Err("CannotSetPath", P_a_a)
    /\ result = Returned(Err("CannotSetPath", P_a_a))
    /\ data = log[2].pre
    /\ Member(data, "a").v.t = "arr"
    /\ ~Member(data, "0").some
    /\ Member(set(data, <<Slash, "0", Slash, "a">>, Int64(3)).v, "0").some

---------------------------------------------------------------------------
(* Orchestrator::build_application: the validation loop, and the            *)
(* AgentSwarm::fix_program it calls                                         *)

\* let max_retries = 3 in build_application
max_retries == 3

AppDefinition(name, description, input_schema, output_schema) ==
    [name |-> name, description |-> description,
     input_schema |-> input_schema, output_schema |-> output_schema]

AppProgram(definition, steps) == [definition |-> definition, steps |-> steps]

TestCase(name, input, expected_output_keys) ==
    [name |-> name, input |-> input, expected_output_keys |-> expected_output_keys]

\* The texts of the model that are JSON, with the values they parse to
ValueTexts ==
    [s \in {"{\"x\":1}", "7"} |-> IF s = "7" THEN Int64(7) ELSE Obj("x" :> Int64(1))]

\* serde_json::from_str::<Value>
from_str_Value(text) ==
    IF text \in DOMAIN ValueTexts THEN Ok(ValueTexts[text]) ELSE Err("JsonError", text)

\* The input a test is run on: a string input that is JSON text is parsed
input_val(test) ==
    IF test.input.t = "str" /\ from_str_Value(test.input.s).ok
    THEN from_str_Value(test.input.s).v
    ELSE test.input

T_none == "[]"
T_get == "[{\"operation\":{\"op\":\"get\",\"path\":\"/x\"},\"output_path\":\"/out\"}]"
T_const == "[{\"operation\":{\"op\":\"constant\",\"value\":1},\"output_path\":\"/out\"}]"
T_nope == "[{\"operation\":{\"op\":\"get\",\"path\":\"/nope\"},\"output_path\":\"/out\"}]"
T_object == "{}"
T_cut == "[{\"operation\":"

\* The texts of the model that are JSON arrays of steps, with their steps
StepTexts ==
    [s \in {T_none, T_get, T_const, T_nope} |->
        CASE s = T_none  -> <<>>
          [] s = T_get   -> <<LogicStep(OpGet(P_x), P_out)>>
          [] s = T_const -> <<LogicStep(OpConstant(CNumber(F(1))), P_out)>>
          [] s = T_nope  -> <<LogicStep(OpGet(P_nope), P_out)>>]

\* serde_json::from_str::<Vec<LogicStep>>
from_str_Steps(text) ==
    IF text \in DOMAIN StepTexts THEN Ok(StepTexts[text]) ELSE Err("JsonError", text)

\* (mutant) the repaired program is built anew around the steps
RepairedAnew(prog, new_steps) ==
    AppProgram(AppDefinition("", "", Null, Null), new_steps)

\* let mut new_program = program.clone(); new_program.steps = new_steps;
Repaired(prog, new_steps) == [prog EXCEPT !.steps = new_steps]

\* The end of fix_program, on what from_str gave
ParsedFix(prog, parsed) ==
    IF parsed.ok THEN Ok(Repaired(prog, parsed.v))
    ELSE Err("ValidationFailed", "Fixer parse failed")

\* AgentSwarm::fix_program, on what the generate call it makes returned
fix_program(prog, definition, error_log, response) ==
    IF ~response.ok THEN response
    ELSE ParsedFix(prog, from_str_Steps(response.v))

\* format!("Test '{}' failed: {}", test.name, e)
Report(test, e) == <<"Test '", test.name, "' failed: ", e>>

\* (mutant) a test passes when execute returned Ok of an object with every
\* expected output key
PassedWithExpectedKeys(r, test) ==
    /\ r.ok
    /\ r.v.t = "obj"
    /\ \A i \in 1..Len(test.expected_output_keys) :
          test.expected_output_keys[i] \in DOMAIN r.v.m

\* The arms of match Runtime::execute(..): Ok is a pass
Passed(r, test) == r.ok

\* (mutant) the fixer is invoked after every failed run
FixerInvokedAlways(attempt) == TRUE

\* if attempt < max_retries
FixerInvoked(attempt) == attempt < max_retries

\* The top of the loop body for the given attempt: a run on prog begins
NewRun(o, attempt, prog) ==
    [o EXCEPT !.at = "testing", !.attempt = attempt, !.t = 1,
              !.all_passed = TRUE, !.error_report = <<>>,
              !.runs = Append(@, [program |-> prog, results |-> <<>>])]

\* History: what execute returned for the test
Recorded(o, r) == [o EXCEPT !.runs[Len(o.runs)].results = Append(@, r)]

\* One pass of `for test in &tests`, on what execute returned
Tested(o, test, r) ==
    IF Passed(r, test)
    THEN [Recorded(o, r) EXCEPT !.t = @ + 1]
    ELSE [Recorded(o, r) EXCEPT !.all_passed = FALSE,
                                !.error_report = Report(test, r),
                                !.at = "judging"]

RunTest ==
    /\ orch.at = "testing"
    /\ orch.t <= Len(orch.tests)
    /\ orch' = Tested(orch, orch.tests[orch.t],
                      execute(program, input_val(orch.tests[orch.t])))
    /\ UNCHANGED <<program, inputs, data, pc, result, log, calls, client>>

\* `for test in &tests` is through
EndOfTests ==
    /\ orch.at = "testing"
    /\ orch.t > Len(orch.tests)
    /\ orch' = [orch EXCEPT !.at = "judging"]
    /\ UNCHANGED <<program, inputs, data, pc, result, log, calls, client>>

\* if all_passed { return Ok(program) }
Accept ==
    /\ orch.at = "judging"
    /\ orch.all_passed
    /\ orch' = [orch EXCEPT !.at = "returned", !.ret = Returned(Ok(program))]
    /\ UNCHANGED <<program, inputs, data, pc, result, log, calls, client>>

\* The end of the loop body: the next attempt, or past the loop the
\* ValidationFailed of build_application
Advance(o, prog) ==
    IF o.attempt + 1 <= max_retries
    THEN NewRun(o, o.attempt + 1, prog)
    ELSE [o EXCEPT !.at = "returned",
                   !.ret = Returned(Err("ValidationFailed",
                              "Failed to generate valid program after max retries"))]

\* History: the call of fix_program and what it returned
FixCalled(o, prog, response, fixed) ==
    [o EXCEPT !.fixes = Append(@, [attempt |-> o.attempt, program |-> prog,
                                   error_log |-> o.error_report,
                                   response |-> response, returned |-> fixed])]

\* program = self.swarm.fix_program(..).await?
Fixed(fixed, response) ==
    IF fixed.ok
    THEN /\ program' = fixed.v
         /\ orch' = Advance(FixCalled(orch, program, response, fixed), fixed.v)
    ELSE /\ program' = program
         /\ orch' = [FixCalled(orch, program, response, fixed)
                       EXCEPT !.at = "returned", !.ret = Returned(fixed)]

\* What the generate call of fix_program may return
GenerateErrors ==
    { Err("GenerationFailed", "API Error 500"),
      Err("GenerationFailed", "No text content returned") }

FixResponses ==
    {Ok(text) : text \in {T_none, T_get, T_const, T_nope, T_cut}}
    \cup {Err("GenerationFailed", "API Error 500")}

Fix ==
    /\ orch.at = "judging"
    /\ ~orch.all_passed
    /\ FixerInvoked(orch.attempt)
    /\ \E response \in FixResponses :
          Fixed(fix_program(program, orch.definition, orch.error_report, response),
                response)
    /\ UNCHANGED <<inputs, data, pc, result, log, calls, client>>

\* The failed run was the last: no repair
GiveUp ==
    /\ orch.at = "judging"
    /\ ~orch.all_passed
    /\ ~FixerInvoked(orch.attempt)
    /\ orch' = Advance(orch, program)
    /\ UNCHANGED <<program, inputs, data, pc, result, log, calls, client>>

NextBuild == RunTest \/ EndOfTests \/ Accept \/ Fix \/ GiveUp

MaxTests == 2

TestPool ==
    { TestCase("has_x", Obj("x" :> Int64(1)), <<"out">>),
      TestCase("text", Str("{\"x\":1}"), <<"missing">>),
      TestCase("no_x", Str("abc"), <<>>) }

Definition0 ==
    AppDefinition("app", "d", SchemaOf({"x"}), SchemaTotal)

\* build_application at `let max_retries = 3`: define_app, write_logic and
\* generate_tests have returned Ok
InitBuild ==
    /\ program \in {AppProgram(Definition0, StepTexts[t]) : t \in DOMAIN StepTexts}
    /\ \E tests \in SeqsUpTo(TestPool, MaxTests) :
          orch = NewRun([at |-> "testing", attempt |-> 0, t |-> 0,
                         all_passed |-> TRUE, error_report |-> <<>>,
                         tests |-> tests, definition |-> program.definition,
                         ret |-> Running, runs |-> <<>>, fixes |-> <<>>],
                        1, program)
    /\ inputs = Null
    /\ data = Null
    /\ pc = 0
    /\ result = Running
    /\ log = <<>>
    /\ calls = <<>>
    /\ client = NoCall

SpecBuild == InitBuild /\ [][NextBuild]_vars

\* What execute returns for test i of the loop on the program
Outcome(prog, i) == execute(prog, input_val(orch.tests[i]))

\* The first test execute returns an error for, 0 when there is none
FirstFailure(prog) ==
    IF \E i \in 1..Len(orch.tests) : ~Outcome(prog, i).ok
    THEN CHOOSE i \in 1..Len(orch.tests) :
            /\ ~Outcome(prog, i).ok
            /\ \A k \in 1..(i - 1) : Outcome(prog, k).ok
    ELSE 0

\* Run k is through
RunOver(k) == k < Len(orch.runs) \/ orch.at \in {"judging", "returned"}

LastRun == orch.runs[Len(orch.runs)]

---------------------------------------------------------------------------
(* C27 *)

\* C27: build_application returns Ok(p) only for p the program of the last
\* validation run, in which execute returned Ok for every test; each run
\* executes the tests in order up to the first for which execute returns an
\* error and no further (whatever the expected_output_keys), and each call
\* of fix_program is given the program of the failed run and the report of
\* that one error.
C27_Acceptance ==
    /\ (orch.ret # Running /\ orch.ret.r.ok) =>
          /\ orch.ret.r.v = program
          /\ LastRun.program = program
          /\ Len(LastRun.results) = Len(orch.tests)
          /\ \A i \in 1..Len(orch.tests) : Outcome(program, i).ok
    /\ \A k \in 1..Len(orch.runs) :
          /\ \A i \in 1..Len(orch.runs[k].results) :
                /\ orch.runs[k].results[i] = Outcome(orch.runs[k].program, i)
                /\ i < Len(orch.runs[k].results) => orch.runs[k].results[i].ok
          /\ RunOver(k) =>
                Len(orch.runs[k].results)
                  = IF FirstFailure(orch.runs[k].program) = 0
                    THEN Len(orch.tests)
                    ELSE FirstFailure(orch.runs[k].program)
    /\ \A k \in 1..Len(orch.fixes) :
          /\ orch.fixes[k].program = orch.runs[k].program
          /\ FirstFailure(orch.runs[k].program) # 0
          /\ orch.fixes[k].error_log
               = Report(orch.tests[FirstFailure(orch.runs[k].program)],
                        Outcome(orch.runs[k].program,
                                FirstFailure(orch.runs[k].program)))
    /\ (orch.at = "returned" /\ FirstFailure(LastRun.program) = 0
          /\ (orch.fixes = <<>> \/ orch.fixes[Len(orch.fixes)].returned.ok)) =>
          orch.ret = Returned(Ok(program))

\* The first program failed on the second test, no_x, and the report of
\* that error went to the fixer; the repaired program was returned: both
\* tests passed, "text" among them although its expected key "missing" is
\* not in the output.
C27_Witness ==
    /\ orch.at = "returned"
    /\ orch.ret = Returned(Ok(program))
    /\ Len(orch.runs) = 2
    /\ Len(orch.tests) = 2
    /\ orch.tests[1].name = "text"
    /\ orch.tests[2].name = "no_x"
    /\ orch.runs[1].results[1].ok
    /\ ~orch.runs[1].results[2].ok
    /\ orch.fixes[1].error_log[2] = "no_x"
    /\ orch.runs[2].program = program
    /\ Outcome(program, 1).ok
    /\ "missing" \notin DOMAIN Outcome(program, 1).v.m

---------------------------------------------------------------------------
(* C28 *)

\* Run k ended with a failed test
RunFailed(k) ==
    /\ RunOver(k)
    /\ orch.runs[k].results # <<>>
    /\ ~orch.runs[k].results[Len(orch.runs[k].results)].ok

\* C28: build_application makes at most 3 validation runs and at most 2
\* calls of fix_program; call k of fix_program follows the failed run k,
\* k < 3; it returns ValidationFailed ("after max retries") only after a
\* failed third run, without a third call of fix_program; and an error of
\* fix_program is returned at once, with no further run.
C28_Bounded ==
    /\ Len(orch.runs) <= 3
    /\ Len(orch.fixes) <= 2
    /\ Len(orch.fixes) \in {Len(orch.runs) - 1, Len(orch.runs)}
    /\ \A k \in 1..Len(orch.fixes) :
          /\ orch.fixes[k].attempt = k
          /\ k < 3
          /\ RunFailed(k)
          /\ ~orch.fixes[k].returned.ok =>
                /\ k = Len(orch.fixes)
                /\ k = Len(orch.runs)
                /\ orch.ret = Returned(orch.fixes[k].returned)
    /\ (Len(orch.runs) = 3 /\ RunFailed(3)) =>
          /\ Len(orch.fixes) = 2
          /\ orch.at = "returned" =>
                orch.ret = Returned(Err("ValidationFailed",
                              "Failed to generate valid program after max retries"))
    /\ (orch.ret # Running /\ ~orch.ret.r.ok) =>
          \/ Len(orch.runs) = 3 /\ RunFailed(3) /\ Len(orch.fixes) = 2
          \/ /\ orch.fixes # <<>>
             /\ orch.ret = Returned(orch.fixes[Len(orch.fixes)].returned)

\* Three runs failed, with a repair after the first and after the second;
\* build_application returned ValidationFailed.
C28_Witness ==
    /\ orch.at = "returned"
    /\ Len(orch.runs) = 3
    /\ Len(orch.fixes) = 2
    /\ RunFailed(1) /\ RunFailed(2) /\ RunFailed(3)
    /\ orch.fixes[1].returned.ok /\ orch.fixes[2].returned.ok
    /\ orch.ret.r.kind = "ValidationFailed"

\* The second call of fix_program returned an error (its text was no step
\* list); build_application returned it after two runs.
C28_FixerErrorWitness ==
    /\ orch.at = "returned"
    /\ Len(orch.runs) = 2
    /\ Len(orch.fixes) = 2
    /\ orch.fixes[2].response = Ok(T_cut)
    /\ orch.ret = Returned(Err("ValidationFailed", "Fixer parse failed"))

---------------------------------------------------------------------------
(* C29 *)

\* Every call of fix_program that returned Ok returned a program with the
\* definition of the program passed in, field by field, and the steps of
\* the response; the program passed in is the one the run before ran, as
\* it was, and the program returned is the one the next run runs.
RepairsCopy ==
    \A k \in 1..Len(orch.fixes) :
        orch.fixes[k].returned.ok =>
            /\ orch.fixes[k].returned.v.definition.name
                 = orch.fixes[k].program.definition.name
            /\ orch.fixes[k].returned.v.definition.description
                 = orch.fixes[k].program.definition.description
            /\ orch.fixes[k].returned.v.definition.input_schema
                 = orch.fixes[k].program.definition.input_schema
            /\ orch.fixes[k].returned.v.definition.output_schema
                 = orch.fixes[k].program.definition.output_schema
            /\ orch.fixes[k].returned.v.steps
                 = from_str_Steps(orch.fixes[k].response.v).v
            /\ orch.fixes[k].program = orch.runs[k].program
            /\ orch.runs[k + 1].program = orch.fixes[k].returned.v

\* C29: fix_program returns a program with the definition of the program
\* passed in and the newly generated steps, the program passed in stays as
\* it was, and no step but a repair (no execute of a test) changes the
\* program.
C29_CopyOnRepair ==
    /\ []RepairsCopy
    /\ [][program' # program => Len(orch'.fixes) = Len(orch.fixes) + 1]_vars

\* A repair replaced the steps of the program by different ones and kept
\* the definition; the program of the first run is still on record as it
\* was.
C29_Witness ==
    /\ Len(orch.fixes) >= 1
    /\ orch.fixes[1].returned.ok
    /\ orch.fixes[1].returned.v.steps # orch.fixes[1].program.steps
    /\ orch.fixes[1].returned.v.definition = Definition0
    /\ orch.runs[1].program = orch.fixes[1].program
    /\ Len(orch.runs) >= 2
    /\ orch.runs[2].results # <<>>

---------------------------------------------------------------------------
(* GeminiClient::generate and the AgentSwarm::write_logic that calls it     *)

\* let max_retries = 3 in generate
generate_max_retries == 3

\* let max_retries = 3 in write_logic
write_logic_max_retries == 3

\* History: an attempt, a sleep or a return of generate, in call number
\* c.wl_attempt of write_logic, at generate's attempt c.attempt
Event(c, e, v) == [e |-> e, call |-> c.wl_attempt, attempt |-> c.attempt, v |-> v]

Noted(c, e, v) == [c EXCEPT !.events = Append(@, Event(c, e, v))]

\* self.client.generate(&system, &user, None, "Development"): the first
\* attempt is about to be made
Called(c) == [c EXCEPT !.at = "attempting", !.attempt = 1]

\* The user prompt of a retry of write_logic
RetryPrompt(initial_user_prompt, e) ==
    <<initial_user_prompt, "PREVIOUS ATTEMPT FAILED: ", e>>

WriteLogicReturns(c, r) == [c EXCEPT !.at = "returned", !.ret = Returned(r)]

\* if attempt == max_retries, in write_logic
LastLogicAttempt(attempt) == attempt = write_logic_max_retries

\* The Err arm of write_logic's match, and the end of its loop
LogicRetry(c, e) ==
    IF LastLogicAttempt(c.wl_attempt)
    THEN WriteLogicReturns(c, Err("ValidationFailed", "Logic parse failed"))
    ELSE IF c.wl_attempt + 1 > write_logic_max_retries
         THEN WriteLogicReturns(c, Err("ValidationFailed", "Max logic retries exceeded"))
         ELSE Called([c EXCEPT !.user = RetryPrompt(c.initial_user_prompt, e),
                               !.wl_attempt = @ + 1])

\* write_logic's match on what from_str gave
Parsed(c, parsed) ==
    IF parsed.ok THEN WriteLogicReturns(c, Ok(AppProgram(c.definition, parsed.v)))
    ELSE LogicRetry(c, parsed)

\* write_logic from `let json_text = ..generate(..).await?` on, generate
\* having returned r
Generated(c, r) ==
    IF ~r.ok THEN WriteLogicReturns(c, r)
    ELSE Parsed(c, from_str_Steps(r.v))

\* generate returns r
GenerateReturns(c, r) == Generated(Noted(c, "return", r), r)

\* (mutant) no attempt is taken for the last
LastAttemptNever(attempt) == FALSE

\* if attempt == max_retries, in generate
LastAttempt(attempt) == attempt = generate_max_retries

\* Duration::from_secs(2u64.pow(attempt as u32))
Backoff(attempt) == 2 ^ attempt

\* The Err arm of generate's match
Failed(c, e) ==
    IF LastAttempt(c.attempt) THEN GenerateReturns(c, e)
    ELSE [c EXCEPT !.at = "sleeping"]

\* The end of generate's loop body after the sleep, and the end of the loop
Slept(c) ==
    IF c.attempt + 1 <= generate_max_retries
    THEN [c EXCEPT !.attempt = @ + 1, !.at = "attempting"]
    ELSE GenerateReturns(c, Err("GenerationFailed", "Max retries exceeded"))

\* The texts generate_attempt may return
AttemptTexts == {T_none, T_get, T_cut, T_object}

\* generate_attempt returned Ok(text)
AttemptSucceeds ==
    /\ client.at = "attempting"
    /\ \E text \in AttemptTexts :
          client' = GenerateReturns(Noted(client, "attempt", Ok(text)), Ok(text))
    /\ UNCHANGED <<program, inputs, data, pc, result, log, calls, orch>>

\* generate_attempt returned Err(e)
AttemptFails ==
    /\ client.at = "attempting"
    /\ \E e \in GenerateErrors :
          client' = Failed(Noted(client, "attempt", e), e)
    /\ UNCHANGED <<program, inputs, data, pc, result, log, calls, orch>>

\* sleep(..).await is over
Sleep ==
    /\ client.at = "sleeping"
    /\ client' = Slept([Noted(client, "sleep", Backoff(client.attempt))
                          EXCEPT !.clock = @ + Backoff(client.attempt)])
    /\ UNCHANGED <<program, inputs, data, pc, result, log, calls, orch>>

NextGenerate == AttemptSucceeds \/ AttemptFails \/ Sleep

\* write_logic at its first call of generate
InitGenerate ==
    /\ client = Called([at |-> "none", attempt |-> 0, wl_attempt |-> 1,
                        initial_user_prompt |-> "Generate the logic.",
                        user |-> "Generate the logic.",
                        definition |-> Definition0,
                        ret |-> Running, events |-> <<>>, clock |-> 0])
    /\ program = Null
    /\ inputs = Null
    /\ data = Null
    /\ pc = 0
    /\ result = Running
    /\ log = <<>>
    /\ calls = <<>>
    /\ orch = NoLoop

SpecGenerate == InitGenerate /\ [][NextGenerate]_vars

Events == client.events

IsAttempt(i) == Events[i].e = "attempt"

IsSleep(i) == Events[i].e = "sleep"

IsReturn(i) == Events[i].e = "return"

\* The attempts made in call c of generate
AttemptsOf(c) == SelectSeq(Events, LAMBDA ev : ev.e = "attempt" /\ ev.call = c)

\* What call c of generate returned, if it has
ReturnsOf(c) == SelectSeq(Events, LAMBDA ev : ev.e = "return" /\ ev.call = c)

---------------------------------------------------------------------------
(* C30 *)

\* C30, generate: a call makes at most 3 attempts, numbered in order; a
\* successful attempt is the call's last and its text is returned at once;
\* a failed attempt k < 3 is followed by a sleep of 2^k seconds and that by
\* attempt k + 1; a failed third attempt is followed by no sleep and its
\* error is returned.
GenerateRetries ==
    /\ \A c \in 1..write_logic_max_retries :
          /\ Len(AttemptsOf(c)) <= 3
          /\ \A k \in 1..Len(AttemptsOf(c)) : AttemptsOf(c)[k].attempt = k
          /\ Len(ReturnsOf(c)) <= 1
    /\ \A i \in 1..Len(Events) :
          /\ (IsAttempt(i) /\ Events[i].v.ok) =>
                /\ i < Len(Events)
                /\ IsReturn(i + 1)
                /\ Events[i + 1].call = Events[i].call
                /\ Events[i + 1].v = Events[i].v
          /\ (IsAttempt(i) /\ ~Events[i].v.ok /\ Events[i].attempt < 3
                /\ i < Len(Events)) =>
                   /\ IsSleep(i + 1)
                   /\ Events[i + 1].v = 2 ^ Events[i].attempt
          /\ (IsAttempt(i) /\ ~Events[i].v.ok /\ Events[i].attempt = 3) =>
                /\ i < Len(Events)
                /\ IsReturn(i + 1)
                /\ Events[i + 1].v = Events[i].v
          /\ IsSleep(i) =>
                /\ i > 1
                /\ IsAttempt(i - 1)
                /\ ~Events[i - 1].v.ok
                /\ Events[i - 1].attempt < 3
                /\ i < Len(Events) =>
                      /\ IsAttempt(i + 1)
                      /\ Events[i + 1].call = Events[i].call
                      /\ Events[i + 1].attempt = Events[i].attempt + 1
          /\ IsReturn(i) =>
                /\ i > 1
                /\ IsAttempt(i - 1)
                /\ Events[i - 1].call = Events[i].call
                /\ Events[i].v = Events[i - 1].v
                /\ ~Events[i].v.ok =>
                      /\ Len(AttemptsOf(Events[i].call)) = 3
                      /\ \A k \in 1..3 : ~AttemptsOf(Events[i].call)[k].v.ok

\* C30, write_logic: it calls generate at most 3 times; a call after the
\* first follows a call that returned a text which is no step list; an
\* error of generate is returned at once, as is the program of a text that
\* is a step list; three texts that are no step lists give ValidationFailed.
WriteLogicRetries ==
    /\ \A i \in 1..Len(Events) : Events[i].call \in 1..3
    /\ \A i \in 1..(Len(Events) - 1) :
          /\ Events[i + 1].call \in {Events[i].call, Events[i].call + 1}
          /\ Events[i + 1].call = Events[i].call + 1 =>
                /\ IsReturn(i)
                /\ Events[i].v.ok
                /\ ~from_str_Steps(Events[i].v.v).ok
                /\ IsAttempt(i + 1)
                /\ Events[i + 1].attempt = 1
    /\ \A i \in 1..Len(Events) :
          IsReturn(i) =>
             IF ~Events[i].v.ok
             THEN i = Len(Events) /\ client.ret = Returned(Events[i].v)
             ELSE IF from_str_Steps(Events[i].v.v).ok
             THEN /\ i = Len(Events)
                  /\ client.ret = Returned(Ok(AppProgram(client.definition,
                                        from_str_Steps(Events[i].v.v).v)))
             ELSE IF Events[i].call = 3
             THEN /\ i = Len(Events)
                  /\ client.ret = Returned(Err("ValidationFailed", "Logic parse failed"))
             ELSE /\ i = Len(Events) => (client.ret = Running /\ client.at = "attempting")
                  /\ i < Len(Events) => Events[i + 1].call = Events[i].call + 1
    /\ client.ret # Running => (Events # <<>> /\ IsReturn(Len(Events)))

\* C30: generate makes at most 3 attempts, returns the first success, sleeps
\* 2^attempt seconds between attempts only, and returns the third error;
\* write_logic calls generate at most 3 times, again only after a text that
\* does not parse as a step list, and returns an error of generate at once.
C30_Retries == GenerateRetries /\ WriteLogicRetries

\* The first call failed twice, slept 2 and 4 seconds and then returned a
\* text that is no step list; the second call failed three times with
\* sleeps of 2 and 4 seconds and write_logic returned the third error, with
\* no sleep after it and no third call.
C30_Witness ==
    /\ client.at = "returned"
    /\ Len(AttemptsOf(1)) = 3
    /\ AttemptsOf(1)[3].v = Ok(T_cut)
    /\ Len(AttemptsOf(2)) = 3
    /\ ~AttemptsOf(2)[2].v.ok
    /\ ~AttemptsOf(2)[3].v.ok
    /\ AttemptsOf(2)[2].v # AttemptsOf(2)[3].v
    /\ ~client.ret.r.ok
    /\ client.ret = Returned(AttemptsOf(2)[3].v)
    /\ client.clock = 12
    /\ AttemptsOf(3) = <<>>

\* write_logic called generate three times, each returning at its first
\* attempt a text that is no step list, and returned ValidationFailed.
C30_ParseWitness ==
    /\ client.at = "returned"
    /\ Len(ReturnsOf(1)) = 1 /\ Len(ReturnsOf(2)) = 1 /\ Len(ReturnsOf(3)) = 1
    /\ client.clock = 0
    /\ client.user # client.initial_user_prompt
    /\ client.ret = Returned(Err("ValidationFailed", "Logic parse failed"))

=============================================================================
